---- MODULE Spec2Model ----
(***************************************************************************)
(* A model of the browzer_web HTTP framework: the router (registration,    *)
(* exact and dynamic matching, query parsing, the middleware chain) and    *)
(* the worker pool (job channel, receiver lock, workers, teardown).        *)
(*                                                                         *)
(* Text is modelled as a sequence of one-character strings, so that        *)
(* splitting, prefix tests and slicing are computed character by           *)
(* character as the Rust code computes them.                               *)
(***************************************************************************)
EXTENDS Integers, Sequences, FiniteSets, TLC

\* ------------------------------------------------------------------------
\* Bounds of the exploration
\* ------------------------------------------------------------------------
\* longest request path given to match_dynamic_route on its own
MaxReqLen == 4
\* longest route pattern given to match_dynamic_route on its own
MaxPatLen == 3
\* most route registrations made before requests are handled
MaxAdds == 2
\* most middleware registrations
MaxMiddlewares == 2
\* longest query text appended to a request path
MaxQueryLen == 5
\* number of jobs the acceptor submits
MaxJobs == 3
\* most lines a client sends after the request line
MaxHeaderLines == 3
\* most headers and most cookies of a Response that is serialized
MaxHeaders == 2
MaxCookies == 1
\* number of connections the acceptor hands to the pool
MaxConnections == 2
\* longest path given to format_path_by_slashes
MaxFormatLen == 3
MaxRequests == 2
\* number of workers of the pool (the `workers` argument of WebServer::new)
PoolSize == 2

\* ------------------------------------------------------------------------
\* Text helpers (Rust str primitives)
\* ------------------------------------------------------------------------
\* all texts over an alphabet, up to a length
StringsUpTo(alphabet, n) == UNION {[1..k -> alphabet] : k \in 0..n}

\* position of the first occurrence of character c in s, 0 when absent
IndexOf(s, c) ==
    IF \E i \in 1..Len(s) : s[i] = c
    THEN CHOOSE i \in 1..Len(s) : s[i] = c /\ \A j \in 1..(i-1) : s[j] # c
    ELSE 0

\* str::split(c): the pieces between occurrences of c; never empty
RECURSIVE Split(_, _)
Split(s, c) ==
    LET i == IndexOf(s, c)
    IN IF i = 0 THEN <<s>>
       ELSE <<SubSeq(s, 1, i-1)>> \o Split(SubSeq(s, i+1, Len(s)), c)

\* str::starts_with(c)
StartsWith(s, c) == Len(s) > 0 /\ s[1] = c

\* Option<T>
None == [some |-> FALSE]
Some(v) == [some |-> TRUE, value |-> v]

\* HashMap::new() and HashMap::insert
EmptyMap == <<>>
MapInsert(m, k, v) == [x \in (DOMAIN m) \cup {k} |-> IF x = k THEN v ELSE m[x]]

\* ------------------------------------------------------------------------
\* WebRouter::match_dynamic_route
\* ------------------------------------------------------------------------
\* the zip loop over (request part, route part), from position i on
RECURSIVE MatchParts(_, _, _, _)
MatchParts(request_path_parts, route_path_parts, i, params) ==
    IF i > Len(route_path_parts) THEN Some(params)
    ELSE IF StartsWith(route_path_parts[i], ":")
         THEN MatchParts(request_path_parts, route_path_parts, i + 1,
                         MapInsert(params,
                                   SubSeq(route_path_parts[i], 2, Len(route_path_parts[i])),
                                   request_path_parts[i]))
         ELSE IF request_path_parts[i] # route_path_parts[i] THEN None
         ELSE MatchParts(request_path_parts, route_path_parts, i + 1, params)

\* a faulty matcher that matches the request path with its query text
match_dynamic_route_noquerystrip(request_path, route_path) ==
    LET request_path_parts == Split(request_path, "/")
        route_path_parts == Split(route_path, "/")
    IN IF Len(route_path_parts) # Len(request_path_parts) THEN None
       ELSE MatchParts(request_path_parts, route_path_parts, 1, EmptyMap)

match_dynamic_route(request_path, route_path) ==
    LET request_path_parts == Split(Split(request_path, "?")[1], "/")
        route_path_parts == Split(route_path, "/")
    IN IF Len(route_path_parts) # Len(request_path_parts) THEN None
       ELSE MatchParts(request_path_parts, route_path_parts, 1, EmptyMap)

\* ------------------------------------------------------------------------
\* Program values: HttpMethod, HttpStatusCode, Response, Context
\* ------------------------------------------------------------------------
\* HttpMethod::to_string of the four enum values
HttpMethods == {"GET", "POST", "PATCH", "DELETE"}

\* HttpStatusCode::code: (reason phrase, number)
StatusCode(status) ==
    CASE status = "OK" -> <<"OK", 200>>
      [] status = "Created" -> <<"Created", 201>>
      [] status = "Accepted" -> <<"Accepted", 202>>
      [] status = "NoContent" -> <<"NoContent", 204>>
      [] status = "MovedPermanently" -> <<"Moved Permanently", 301>>
      [] status = "Found" -> <<"Found", 302>>
      [] status = "SeeOther" -> <<"See Other", 303>>
      [] status = "NotModified" -> <<"Not Modified", 304>>
      [] status = "BadRequest" -> <<"Bad Request", 400>>
      [] status = "Unauthorized" -> <<"Unauthorized", 401>>
      [] status = "Forbidden" -> <<"Forbidden", 403>>
      [] status = "NotFound" -> <<"Not Found", 404>>
      [] status = "MethodNotAllowed" -> <<"Method Not Allowed", 405>>
      [] status = "InternalServerError" -> <<"Internal Server Error", 500>>
      [] status = "NotImplemented" -> <<"Not Implemented", 501>>
      [] status = "BadGateway" -> <<"Bad Gateway", 502>>
      [] status = "ServiceUnavailable" -> <<"Service Unavailable", 503>>

\* Response::new(status_code, body)
ResponseNew(status_code, body) ==
    [status_code |-> status_code, headers |-> EmptyMap, body |-> body, cookies |-> EmptyMap]

\* Response::default()
ResponseDefault ==
    [status_code |-> "OK", headers |-> EmptyMap, body |-> "", cookies |-> EmptyMap]

\* the framework's own answer: the status with its reason phrase as body
StatusResponse(status) == ResponseNew(status, StatusCode(status)[1])

\* Context::new(request)
ContextNew(req) ==
    [request |-> req, response |-> ResponseDefault,
     params |-> EmptyMap, query_params |-> EmptyMap]

\* Context::send_string(status_code, input): sets status and body of the
\* in-progress response and returns a clone of it
send_string(context, status_code, input) ==
    [context.response EXCEPT !.status_code = status_code, !.body = input]

\* Context::redirect(status_code, route): the header Location is set to
\* the route and the status code is set, the body is left as it is
redirect(context, status_code, route) ==
    [context.response EXCEPT !.headers = MapInsert(@, "Location", route),
                             !.status_code = status_code]

\* ------------------------------------------------------------------------
\* The closures registered by the application (inputs of the model)
\* ------------------------------------------------------------------------
\* route handlers: handler h answers c.send_string(OK, h)
Handlers == {"h1", "h2"}

\* the file system under the directory given to serve_static, as Path::
\* exists and fs::read_to_string see the joined path: "a" is a text file,
\* "b" is a file that is no valid UTF-8, the empty name and "." are the
\* directory itself, ".." is the directory above it, and no other name
\* exists; read_to_string fails on a directory
PathExists(filename) == filename \in { <<"a">>, <<"b">>, <<>>, <<".">>, <<".", ".">> }
ReadToString(filename) == IF filename = <<"a">> THEN Some("text of a") ELSE None

\* the name under which the static route binds the last segment
FilenameParam == <<"f", "i", "l", "e", "n", "a", "m", "e">>

\* the closure that serve_static registers
ServeStaticFunc(context) ==
    IF FilenameParam \notin DOMAIN context.params
    THEN send_string(context, "InternalServerError", StatusCode("InternalServerError")[1])
    ELSE LET filename == context.params[FilenameParam]
         IN IF PathExists(filename)
            THEN IF ReadToString(filename).some
                 THEN send_string(context, "OK", ReadToString(filename).value)
                 ELSE send_string(context, "InternalServerError",
                                  StatusCode("InternalServerError")[1])
            ELSE send_string(context, "NotFound", StatusCode("NotFound")[1])

\* Cookie::new(name, value): a cookie record with every attribute unset
CookieNew(name, value) ==
    [name |-> name, value |-> value, path |-> None, domain |-> None,
     expires |-> None, max_age |-> None, secure |-> FALSE, http_only |-> FALSE]

\* what a registered closure answers: the closure of serve_static, a user
\* handler that constructs a 500 itself, a user handler that answers
\* c.redirect(Found, "/home"), a user handler that inserts two cookies
\* into c.response.cookies before it answers, a user handler that copies
\* the parameter "x" and the query value "a" of its Context into the
\* response header "X-Echo" before it answers, or a user handler h that
\* answers c.send_string(OK, h)
HandlerFunc(h, context) ==
    CASE h = "static" -> ServeStaticFunc(context)
      [] h = "h500" -> send_string(context, "InternalServerError", "h500")
      [] h = "h302" -> redirect(context, "Found", <<"/", "h", "o", "m", "e">>)
      [] h = "hcookie" ->
            send_string([context EXCEPT !.response.cookies =
                            MapInsert(MapInsert(@, <<"s">>, CookieNew(<<"s">>, <<"1">>)),
                                      <<"t">>, CookieNew(<<"t">>, <<"2">>))],
                        "OK", "hcookie")
      [] h = "hecho" ->
            send_string([context EXCEPT !.response.headers =
                            MapInsert(@, "X-Echo",
                                      (IF <<"x">> \in DOMAIN context.params
                                       THEN context.params[<<"x">>] ELSE <<>>)
                                      \o (IF <<"a">> \in DOMAIN context.query_params
                                          THEN context.query_params[<<"a">>] ELSE <<>>))],
                        "OK", "hecho")
      [] OTHER -> send_string(context, "OK", h)

\* middlewares: middleware m appends its name to the response header
\* "X-Trace" of the context and returns the context
MiddlewareIds == {"A", "B"}
MiddlewareFunc(m, context) ==
    LET old == IF "X-Trace" \in DOMAIN context.response.headers
               THEN context.response.headers["X-Trace"] ELSE <<>>
    IN [context EXCEPT !.response.headers = MapInsert(@, "X-Trace", Append(old, m))]

\* ------------------------------------------------------------------------
\* WebRouter::handle_request
\* ------------------------------------------------------------------------
\* one call of a route handler: the answer and the record of the call
Dispatch(h, context) ==
    [response |-> HandlerFunc(h, context),
     calls |-> << [kind |-> "handler", id |-> h, context |-> context] >>]

\* an answer produced by the router itself, no handler called
Answer(status) == [response |-> StatusResponse(status), calls |-> <<>>]

\* the loop over the pieces of the query text, from piece i on
RECURSIVE ParseQueryParts(_, _, _)
ParseQueryParts(parts, i, query_params) ==
    IF i > Len(parts) THEN [ok |-> TRUE, query_params |-> query_params]
    ELSE LET key_value == Split(parts[i], "=")
             key == key_value[1]
             value == IF Len(key_value) >= 2 THEN key_value[2] ELSE <<>>
         IN IF Len(key) = 0 THEN [ok |-> FALSE, query_params |-> query_params]
            ELSE ParseQueryParts(parts, i + 1, MapInsert(query_params, key, value))

\* request.path.split('?').nth(1) and the loop over query.split('&')
ParseQuery(path) ==
    LET pieces == Split(path, "?")
    IN IF Len(pieces) < 2 THEN [ok |-> TRUE, query_params |-> EmptyMap]
       ELSE ParseQueryParts(Split(pieces[2], "&"), 1, EmptyMap)

\* a faulty dynamic branch that dispatches to the first pattern holding the
\* method, whether or not the pattern matches the path
RECURSIVE ScanRoutesNoMatchTest(_, _, _, _)
ScanRoutesNoMatchTest(rts, order, i, context) ==
    IF i > Len(order) THEN Answer("NotFound")
    ELSE IF context.request.method \in DOMAIN rts[order[i]]
         THEN Dispatch(rts[order[i]][context.request.method], context)
         ELSE ScanRoutesNoMatchTest(rts, order, i + 1, context)

\* a faulty dynamic branch that answers 405 at the first pattern that
\* matches the path and lacks the method
RECURSIVE ScanRoutesStopsAt405(_, _, _, _)
ScanRoutesStopsAt405(rts, order, i, context) ==
    IF i > Len(order) THEN Answer("NotFound")
    ELSE LET route_path == order[i]
             method_map == rts[route_path]
             matched == match_dynamic_route(context.request.path, route_path)
         IN IF matched.some
            THEN IF context.request.method \in DOMAIN method_map
                 THEN LET q == ParseQuery(context.request.path)
                      IN IF ~q.ok THEN Answer("BadRequest")
                         ELSE Dispatch(method_map[context.request.method],
                                       [context EXCEPT !.params = matched.value,
                                                       !.query_params = q.query_params])
                 ELSE Answer("MethodNotAllowed")
            ELSE ScanRoutesStopsAt405(rts, order, i + 1, context)

\* a faulty dynamic branch that tries only the pattern that comes first
\* in iteration order
ScanRoutesFirstOnly(rts, order, i, context) ==
    IF i > Len(order) THEN Answer("NotFound")
    ELSE LET route_path == order[i]
             method_map == rts[route_path]
             matched == match_dynamic_route(context.request.path, route_path)
         IN IF matched.some /\ context.request.method \in DOMAIN method_map
            THEN LET q == ParseQuery(context.request.path)
                 IN IF ~q.ok THEN Answer("BadRequest")
                    ELSE Dispatch(method_map[context.request.method],
                                  [context EXCEPT !.params = matched.value,
                                                  !.query_params = q.query_params])
            ELSE Answer("NotFound")

\* the dynamic branch: the loop over the route table in iteration order
RECURSIVE ScanRoutes(_, _, _, _)
ScanRoutes(rts, order, i, context) ==
    IF i > Len(order) THEN Answer("NotFound")
    ELSE LET route_path == order[i]
             method_map == rts[route_path]
             matched == match_dynamic_route(context.request.path, route_path)
         IN IF matched.some /\ context.request.method \in DOMAIN method_map
            THEN LET q == ParseQuery(context.request.path)
                 IN IF ~q.ok THEN Answer("BadRequest")
                    ELSE Dispatch(method_map[context.request.method],
                                  [context EXCEPT !.params = matched.value,
                                                  !.query_params = q.query_params])
            ELSE ScanRoutes(rts, order, i + 1, context)

\* a faulty exact branch that looks up the GET handler whatever the method
RouterHandleRequestGetOnly(rts, order, context) ==
    IF context.request.path \in DOMAIN rts
    THEN IF "GET" \in DOMAIN rts[context.request.path]
         THEN Dispatch(rts[context.request.path]["GET"], context)
         ELSE Answer("MethodNotAllowed")
    ELSE ScanRoutes(rts, order, 1, context)

\* a faulty router that answers 404 for a registered path with another method
RouterHandleRequestNo405(rts, order, context) ==
    IF context.request.path \in DOMAIN rts
       /\ context.request.method \in DOMAIN rts[context.request.path]
    THEN Dispatch(rts[context.request.path][context.request.method], context)
    ELSE ScanRoutes(rts, order, 1, context)

\* a faulty router that answers 500 for a registered path with another
\* method
RouterHandleRequestAnswers500(rts, order, context) ==
    IF context.request.path \in DOMAIN rts
    THEN IF context.request.method \in DOMAIN rts[context.request.path]
         THEN Dispatch(rts[context.request.path][context.request.method], context)
         ELSE Answer("InternalServerError")
    ELSE ScanRoutes(rts, order, 1, context)

\* a faulty router that scans the patterns first and looks the path up
\* only when the scan called no handler
RouterHandleRequestDynamicFirst(rts, order, context) ==
    LET scanned == ScanRoutes(rts, order, 1, context)
    IN IF scanned.calls # <<>> THEN scanned
       ELSE IF context.request.path \in DOMAIN rts
            THEN IF context.request.method \in DOMAIN rts[context.request.path]
                 THEN Dispatch(rts[context.request.path][context.request.method], context)
                 ELSE Answer("MethodNotAllowed")
            ELSE scanned

\* the exact branch, then the dynamic branch
RouterHandleRequest(rts, order, context) ==
    IF context.request.path \in DOMAIN rts
    THEN IF context.request.method \in DOMAIN rts[context.request.path]
         THEN Dispatch(rts[context.request.path][context.request.method], context)
         ELSE Answer("MethodNotAllowed")
    ELSE ScanRoutes(rts, order, 1, context)

\* a faulty chain that runs the middlewares last-registered first
RECURSIVE ApplyMiddlewaresReversed(_, _, _, _)
ApplyMiddlewaresReversed(mws, i, context, done) ==
    IF i > Len(mws) THEN [context |-> context, calls |-> done]
    ELSE LET m == mws[Len(mws) + 1 - i]
         IN ApplyMiddlewaresReversed(mws, i + 1, MiddlewareFunc(m, context),
                Append(done, [kind |-> "middleware", id |-> m, context |-> context]))

\* a faulty chain that stops after the first middleware
ApplyMiddlewaresFirstOnly(mws, i, context, done) ==
    IF i > Len(mws) THEN [context |-> context, calls |-> done]
    ELSE [context |-> MiddlewareFunc(mws[i], context),
          calls |-> Append(done, [kind |-> "middleware", id |-> mws[i], context |-> context])]

\* the middleware chain: every middleware in registration order, each
\* given the context returned by the one before it
RECURSIVE ApplyMiddlewares(_, _, _, _)
ApplyMiddlewares(mws, i, context, done) ==
    IF i > Len(mws) THEN [context |-> context, calls |-> done]
    ELSE ApplyMiddlewares(mws, i + 1, MiddlewareFunc(mws[i], context),
             Append(done, [kind |-> "middleware", id |-> mws[i], context |-> context]))

\* the iteration orders of a HashMap with the key set S
Orders(S) == {o \in [1..Cardinality(S) -> S] : \A i, j \in DOMAIN o : o[i] = o[j] => i = j}

\* ------------------------------------------------------------------------
\* Text helpers of the wire codec (Rust str primitives)
\* ------------------------------------------------------------------------
\* the characters for which char::is_whitespace holds, the Unicode property
\* White_Space: U+0009 to U+000D, U+0020, U+0085, U+00A0, U+1680, U+2000
\* to U+200A, U+2028, U+2029, U+202F, U+205F and U+3000; a character with
\* no escape of its own is written by its code point, one character each
Whitespace ==
    {"\t", "\n", "U+000B", "\f", "\r", " ", "U+0085", "U+00A0", "U+1680",
     "U+2000", "U+2001", "U+2002", "U+2003", "U+2004", "U+2005", "U+2006",
     "U+2007", "U+2008", "U+2009", "U+200A", "U+2028", "U+2029", "U+202F",
     "U+205F", "U+3000"}

\* str::trim_start, str::trim_end, str::trim
RECURSIVE TrimStart(_)
TrimStart(s) ==
    IF Len(s) > 0 /\ s[1] \in Whitespace THEN TrimStart(Tail(s)) ELSE s
RECURSIVE TrimEnd(_)
TrimEnd(s) ==
    IF Len(s) > 0 /\ s[Len(s)] \in Whitespace THEN TrimEnd(SubSeq(s, 1, Len(s) - 1)) ELSE s
Trim(s) == TrimEnd(TrimStart(s))

\* str::split_whitespace: the maximal runs of non-whitespace characters
RECURSIVE SplitWhitespaceFrom(_, _, _)
SplitWhitespaceFrom(s, i, word) ==
    IF i > Len(s) THEN (IF word = <<>> THEN <<>> ELSE <<word>>)
    ELSE IF s[i] \in Whitespace
         THEN (IF word = <<>> THEN <<>> ELSE <<word>>) \o SplitWhitespaceFrom(s, i + 1, <<>>)
         ELSE SplitWhitespaceFrom(s, i + 1, Append(word, s[i]))
SplitWhitespace(s) == SplitWhitespaceFrom(s, 1, <<>>)

\* str::splitn(2, c): at most two pieces, cut at the first occurrence of c
SplitOnce(s, c) ==
    LET i == IndexOf(s, c)
    IN IF i = 0 THEN <<s>> ELSE <<SubSeq(s, 1, i - 1), SubSeq(s, i + 1, Len(s))>>

\* str::strip_prefix(prefix)
StripPrefix(s, prefix) ==
    IF Len(s) >= Len(prefix) /\ SubSeq(s, 1, Len(prefix)) = prefix
    THEN Some(SubSeq(s, Len(prefix) + 1, Len(s)))
    ELSE None

\* [&str]::join(sep)
RECURSIVE JoinText(_, _)
JoinText(pieces, sep) ==
    IF Len(pieces) = 0 THEN <<>>
    ELSE IF Len(pieces) = 1 THEN pieces[1]
    ELSE pieces[1] \o sep \o JoinText(Tail(pieces), sep)

\* the decimal digits and their values
DigitChars == <<"0", "1", "2", "3", "4", "5", "6", "7", "8", "9">>
IsDigit(c) == \E d \in 1..10 : DigitChars[d] = c
DigitValue(c) == (CHOOSE d \in 1..10 : DigitChars[d] = c) - 1

\* the value of a run of digits
RECURSIVE DigitsValue(_, _)
DigitsValue(s, acc) ==
    IF Len(s) = 0 THEN acc ELSE DigitsValue(Tail(s), acc * 10 + DigitValue(s[1]))

\* the digits of usize::MAX, 2^64 - 1, on a target with 64-bit pointers
UsizeMaxDigits ==
    <<"1", "8", "4", "4", "6", "7", "4", "4", "0", "7", "3", "7", "0", "9",
      "5", "5", "1", "6", "1", "5">>

\* a run of digits without its leading zeros
RECURSIVE StripLeadingZeros(_)
StripLeadingZeros(s) ==
    IF Len(s) > 0 /\ s[1] = "0" THEN StripLeadingZeros(Tail(s)) ELSE s

\* of two runs of digits of one length, whether the first is the greater
RECURSIVE DigitsGreater(_, _)
DigitsGreater(s, t) ==
    IF Len(s) = 0 THEN FALSE
    ELSE IF s[1] # t[1] THEN DigitValue(s[1]) > DigitValue(t[1])
    ELSE DigitsGreater(Tail(s), Tail(t))

\* a usize as its numeral: its decimal digits without leading zeros, "0"
\* for zero; the values of a usize go beyond the integers at hand here, so
\* a usize is kept and compared as its numeral
Numeral(digits) ==
    IF StripLeadingZeros(digits) = <<>> THEN <<"0">> ELSE StripLeadingZeros(digits)

\* of two numerals, whether the first stands for the greater value
NumeralGreater(a, b) ==
    \/ Len(a) > Len(b)
    \/ Len(a) = Len(b) /\ DigitsGreater(a, b)

\* the digits of isize::MAX, 2^63 - 1, the most bytes one allocation can have
IsizeMaxDigits ==
    <<"9", "2", "2", "3", "3", "7", "2", "0", "3", "6", "8", "5", "4", "7",
      "7", "5", "8", "0", "7">>

\* str::parse::<usize>(): an optional "+", then one digit or more, standing
\* for a value of at most usize::MAX, which is given as its numeral;
\* anything else is a ParseIntError
ParseUsize(s) ==
    LET digits == IF StartsWith(s, "+") THEN Tail(s) ELSE s
    IN IF /\ Len(digits) > 0
          /\ \A i \in 1..Len(digits) : IsDigit(digits[i])
          /\ ~NumeralGreater(Numeral(digits), UsizeMaxDigits)
       THEN Some(Numeral(digits))
       ELSE None

\* Display of an unsigned integer: its decimal digits
RECURSIVE ToDecimal(_)
ToDecimal(n) ==
    IF n < 10 THEN <<DigitChars[n + 1]>>
    ELSE ToDecimal(n \div 10) \o <<DigitChars[(n % 10) + 1]>>

\* the value of the hexadecimal digits of a string from position i on
RECURSIVE HexValue(_, _, _)
HexValue(name, i, acc) ==
    IF i > Len(name) THEN acc
    ELSE LET digits == <<"0", "1", "2", "3", "4", "5", "6", "7", "8", "9",
                         "A", "B", "C", "D", "E", "F">>
         IN HexValue(name, i + 1,
                     acc * 16 + (CHOOSE d \in 1..16 : digits[d] = SubSeq(name, i, i)) - 1)

\* the code point of a character (char as u32): a character of ASCII is
\* written as itself, a string of length one (tab, line feed, form feed,
\* carriage return, and the printable characters from the space, 32, to
\* the underscore, 95, and from "a", 97, to the tilde, 126), and any other
\* character, the grave accent "U+0060" among them, by its code point in
\* hexadecimal after "U+" ("U+00E9", "U+1F600"; "U+FFFD" is the
\* replacement character)
CodePoint(c) ==
    IF Len(c) # 1 THEN HexValue(c, 3, 0)
    ELSE IF c = "\t" THEN 9
    ELSE IF c = "\n" THEN 10
    ELSE IF c = "\f" THEN 12
    ELSE IF c = "\r" THEN 13
    ELSE LET upper == " !\"#$%&'()*+,-./0123456789:;<=>?@ABCDEFGHIJKLMNOPQRSTUVWXYZ[\\]^_"
             lower == "abcdefghijklmnopqrstuvwxyz{|}~"
         IN IF \E i \in 1..Len(upper) : SubSeq(upper, i, i) = c
            THEN 31 + (CHOOSE i \in 1..Len(upper) : SubSeq(upper, i, i) = c)
            ELSE 96 + (CHOOSE i \in 1..Len(lower) : SubSeq(lower, i, i) = c)

\* char::len_utf8: the number of bytes of a character in UTF-8
Utf8Width(c) ==
    IF Len(c) = 1 \/ CodePoint(c) < 128 THEN 1
    ELSE IF CodePoint(c) < 2048 THEN 2
    ELSE IF CodePoint(c) < 65536 THEN 3
    ELSE 4

\* String::len(): the length in bytes
RECURSIVE ByteLength(_)
ByteLength(text) ==
    IF Len(text) = 0 THEN 0 ELSE Utf8Width(text[1]) + ByteLength(Tail(text))

\* ------------------------------------------------------------------------
\* WebServer::handle_request, reading: the lines of the connection up to
\* the blank line, then the body announced by Content-Length
\* ------------------------------------------------------------------------
\* the prefix tested on every line read
ContentLengthPrefix ==
    <<"C", "o", "n", "t", "e", "n", "t", "-", "L", "e", "n", "g", "t", "h", ":", " ">>

\* one item of BufRead::lines(): the bytes up to the next "\n" or up to the
\* end of the input, without the "\n" and without a "\r" before it, and
\* whether the "\n" was there; None at the end of the input
ReadLine(stream, pos) ==
    IF pos > Len(stream) THEN None
    ELSE LET rest == SubSeq(stream, pos, Len(stream))
             i == IndexOf(rest, "\n")
             raw == IF i = 0 THEN rest ELSE SubSeq(rest, 1, i - 1)
             line == IF i # 0 /\ Len(raw) > 0 /\ raw[Len(raw)] = "\r"
                     THEN SubSeq(raw, 1, Len(raw) - 1) ELSE raw
         IN Some([line |-> line, next |-> IF i = 0 THEN Len(stream) + 1 ELSE pos + i,
                  terminated |-> i # 0])

\* the outcome of reading: Ok(request_vector) or the error returned
ReadOk(request_vector) == [ok |-> TRUE, error |-> "", vector |-> request_vector]
ReadErr(e) == [ok |-> FALSE, error |-> e, vector |-> <<>>]

\* the two ways in which the reading block does not return at all: the
\* panic "capacity overflow" of Vec::resize, which unwinds the thread that
\* runs handle_request, and the failed allocation, on which the allocation
\* error handler aborts the process; each is named by its message
ReadPanic == [ok |-> FALSE, error |-> "capacity overflow", vector |-> <<>>]
ReadAbort == [ok |-> FALSE, error |-> "memory allocation failed", vector |-> <<>>]

\* String::from_utf8_lossy of the n bytes that start at character pos: the
\* characters that lie within them, then one replacement character when
\* the last byte falls inside a character
RECURSIVE LossyBytes(_, _, _)
LossyBytes(stream, pos, n) ==
    IF n = 0 THEN <<>>
    ELSE IF Utf8Width(stream[pos]) <= n
         THEN <<stream[pos]>> \o LossyBytes(stream, pos + 1, n - Utf8Width(stream[pos]))
         ELSE <<"U+FFFD">>

\* the body, when content_length > 0: body.resize(content_length, 0) on
\* the empty Vec allocates before anything is read; it panics with
\* "capacity overflow" above isize::MAX bytes, and otherwise asks the
\* allocator for content_length bytes, and for eight when content_length
\* is less (the least capacity a Vec of bytes takes), which aborts the
\* process when the allocator does not serve that many (memory is the
\* most it serves at that moment); then read_exact takes content_length
\* bytes after the lines; the read numbered fail_at fails, and so does
\* read_exact on an input with fewer bytes left
ReadBody(stream, pos, request_vector, content_length, reads, fail_at, memory) ==
    IF content_length # <<"0">>
    THEN LET allocated == IF NumeralGreater(<<"8">>, content_length)
                          THEN <<"8">> ELSE content_length
         IN IF NumeralGreater(content_length, IsizeMaxDigits) THEN ReadPanic
            ELSE IF NumeralGreater(allocated, memory) THEN ReadAbort
            ELSE IF \/ fail_at = reads + 1
                    \/ NumeralGreater(content_length,
                                      ToDecimal(ByteLength(SubSeq(stream, pos, Len(stream)))))
                 THEN ReadErr("IO")
                 ELSE ReadOk(Append(request_vector,
                                    LossyBytes(stream, pos, DigitsValue(content_length, 0))))
    ELSE ReadOk(request_vector)

\* the loop over buf_reader.lines(): every item costs one read of the
\* stream, and so does the end of the input, where read returns no byte;
\* a last line without its "\n" is an item only after the read that
\* brought it and the read that met the end of the input
RECURSIVE ReadLines(_, _, _, _, _, _, _)
ReadLines(stream, pos, request_vector, content_length, reads, fail_at, memory) ==
    IF fail_at = reads + 1 THEN ReadErr("IO")
    ELSE LET item == ReadLine(stream, pos)
         IN IF ~item.some
            THEN ReadBody(stream, pos, request_vector, content_length, reads + 1, fail_at,
                          memory)
            ELSE LET line == item.value.line
                     taken == IF item.value.terminated THEN reads + 1 ELSE reads + 2
                     c_l == StripPrefix(line, ContentLengthPrefix)
                     parsed == IF c_l.some THEN ParseUsize(Trim(c_l.value)) ELSE None
                     new_length == IF c_l.some /\ parsed.some THEN parsed.value
                                   ELSE content_length
                 IN IF fail_at = taken THEN ReadErr("IO")
                    ELSE IF c_l.some /\ ~parsed.some THEN ReadErr("ParseIntError")
                    ELSE IF line = <<>>
                         THEN ReadBody(stream, item.value.next, Append(request_vector, line),
                                       new_length, taken, fail_at, memory)
                         ELSE ReadLines(stream, item.value.next, Append(request_vector, line),
                                        new_length, taken, fail_at, memory)

\* the block that builds request_vector
ReadRequestVector(stream, fail_at, memory) ==
    ReadLines(stream, 1, <<>>, <<"0">>, 0, fail_at, memory)

\* ------------------------------------------------------------------------
\* Request::new
\* ------------------------------------------------------------------------
\* a faulty reading of the method token that takes any other token as POST
MethodOfTokenOtherIsPost(token) ==
    CASE token = <<"G", "E", "T">> -> "GET"
      [] token = <<"P", "O", "S", "T">> -> "POST"
      [] token = <<"P", "A", "T", "C", "H">> -> "PATCH"
      [] token = <<"D", "E", "L", "E", "T", "E">> -> "DELETE"
      [] OTHER -> "POST"

\* the request-line token of each HttpMethod; any other token stands for GET
MethodOfToken(token) ==
    CASE token = <<"G", "E", "T">> -> "GET"
      [] token = <<"P", "O", "S", "T">> -> "POST"
      [] token = <<"P", "A", "T", "C", "H">> -> "PATCH"
      [] token = <<"D", "E", "L", "E", "T", "E">> -> "DELETE"
      [] OTHER -> "GET"

\* the name of the header that carries the cookies
CookieHeader == <<"C", "o", "o", "k", "i", "e">>

\* the outcome of Request::new
RequestOk(req) == [ok |-> TRUE, error |-> "", request |-> req]
RequestErr(e) == [ok |-> FALSE, error |-> e, request |-> None]

\* a faulty header loop that keeps the first value a name was given
RECURSIVE ParseHeadersFirstWins(_, _, _)
ParseHeadersFirstWins(input, index, headers) ==
    IF index > Len(input) \/ Trim(input[index]) = <<>>
    THEN [index |-> index, headers |-> headers]
    ELSE LET parts == SplitOnce(input[index], ":")
         IN ParseHeadersFirstWins(input, index + 1,
                IF Len(parts) = 2 /\ Trim(parts[1]) \notin DOMAIN headers
                THEN MapInsert(headers, Trim(parts[1]), Trim(parts[2]))
                ELSE headers)

\* the header loop: from line index on, up to the first line that is empty
\* once trimmed; returns the headers and the index where the loop stopped
RECURSIVE ParseHeaders(_, _, _)
ParseHeaders(input, index, headers) ==
    IF index > Len(input) \/ Trim(input[index]) = <<>>
    THEN [index |-> index, headers |-> headers]
    ELSE LET parts == SplitOnce(input[index], ":")
         IN ParseHeaders(input, index + 1,
                IF Len(parts) = 2
                THEN MapInsert(headers, Trim(parts[1]), Trim(parts[2]))
                ELSE headers)

\* the loop over the pieces of the Cookie header
RECURSIVE ParseCookies(_, _, _)
ParseCookies(pieces, i, cookies) ==
    IF i > Len(pieces) THEN cookies
    ELSE LET cookie_parts == SplitOnce(pieces[i], "=")
         IN ParseCookies(pieces, i + 1,
                IF Len(cookie_parts) = 2
                THEN MapInsert(cookies, Trim(cookie_parts[1]),
                               CookieNew(cookie_parts[1], cookie_parts[2]))
                ELSE cookies)

\* a faulty Request::new that wants exactly three tokens in the request line
RequestNewExactlyThree(input) ==
    IF Len(input) = 0 THEN RequestErr("EmptyRequestError")
    ELSE LET parts == SplitWhitespace(input[1])
         IN IF Len(parts) # 3 THEN RequestErr("InvalidRequestLineError")
            ELSE LET parsed == ParseHeaders(input, 2, EmptyMap)
                     index == parsed.index
                     headers == parsed.headers
                     body == IF index + 1 <= Len(input)
                             THEN Some(JoinText(SubSeq(input, index + 1, Len(input)), <<"\n">>))
                             ELSE None
                     cookies == IF CookieHeader \in DOMAIN headers
                                THEN ParseCookies(Split(headers[CookieHeader], ";"), 1, EmptyMap)
                                ELSE EmptyMap
                 IN RequestOk([method |-> MethodOfToken(parts[1]), path |-> parts[2],
                               version |-> parts[3], headers |-> headers,
                               body |-> body, cookies |-> cookies])

\* Request::new(input): input is the vector of lines
RequestNew(input) ==
    IF Len(input) = 0 THEN RequestErr("EmptyRequestError")
    ELSE LET parts == SplitWhitespace(input[1])
         IN IF Len(parts) < 3 THEN RequestErr("InvalidRequestLineError")
            ELSE LET parsed == ParseHeaders(input, 2, EmptyMap)
                     index == parsed.index
                     headers == parsed.headers
                     body == IF index + 1 <= Len(input)
                             THEN Some(JoinText(SubSeq(input, index + 1, Len(input)), <<"\n">>))
                             ELSE None
                     cookies == IF CookieHeader \in DOMAIN headers
                                THEN ParseCookies(Split(headers[CookieHeader], ";"), 1, EmptyMap)
                                ELSE EmptyMap
                 IN RequestOk([method |-> MethodOfToken(parts[1]), path |-> parts[2],
                               version |-> parts[3], headers |-> headers,
                               body |-> body, cookies |-> cookies])

\* ------------------------------------------------------------------------
\* Response::to_string
\* ------------------------------------------------------------------------
\* the characters of the reason phrase HttpStatusCode::code gives
ReasonChars(status) ==
    CASE status = "OK" -> <<"O", "K">>
      [] status = "Created" -> <<"C", "r", "e", "a", "t", "e", "d">>
      [] status = "Accepted" -> <<"A", "c", "c", "e", "p", "t", "e", "d">>
      [] status = "NoContent" -> <<"N", "o", "C", "o", "n", "t", "e", "n", "t">>
      [] status = "MovedPermanently" -> <<"M", "o", "v", "e", "d", " ", "P", "e", "r", "m", "a", "n", "e", "n", "t", "l", "y">>
      [] status = "Found" -> <<"F", "o", "u", "n", "d">>
      [] status = "SeeOther" -> <<"S", "e", "e", " ", "O", "t", "h", "e", "r">>
      [] status = "NotModified" -> <<"N", "o", "t", " ", "M", "o", "d", "i", "f", "i", "e", "d">>
      [] status = "BadRequest" -> <<"B", "a", "d", " ", "R", "e", "q", "u", "e", "s", "t">>
      [] status = "Unauthorized" -> <<"U", "n", "a", "u", "t", "h", "o", "r", "i", "z", "e", "d">>
      [] status = "Forbidden" -> <<"F", "o", "r", "b", "i", "d", "d", "e", "n">>
      [] status = "NotFound" -> <<"N", "o", "t", " ", "F", "o", "u", "n", "d">>
      [] status = "MethodNotAllowed" -> <<"M", "e", "t", "h", "o", "d", " ", "N", "o", "t", " ", "A", "l", "l", "o", "w", "e", "d">>
      [] status = "InternalServerError" -> <<"I", "n", "t", "e", "r", "n", "a", "l", " ", "S", "e", "r", "v", "e", "r", " ", "E", "r", "r", "o", "r">>
      [] status = "NotImplemented" -> <<"N", "o", "t", " ", "I", "m", "p", "l", "e", "m", "e", "n", "t", "e", "d">>
      [] status = "BadGateway" -> <<"B", "a", "d", " ", "G", "a", "t", "e", "w", "a", "y">>
      [] status = "ServiceUnavailable" -> <<"S", "e", "r", "v", "i", "c", "e", " ", "U", "n", "a", "v", "a", "i", "l", "a", "b", "l", "e">>

\* the format of an expiry instant, "%a, %d %b %Y %H:%M:%S GMT"; the only
\* instant of the model is the epoch
FormatExpires(instant) ==
    CASE instant = 0 -> <<"T", "h", "u", ",", " ", "0", "1", " ", "J", "a", "n", " ", "1", "9", "7", "0", " ", "0", "0", ":", "0", "0", ":", "0", "0", " ", "G", "M", "T">>

\* the text of one cookie after "Set-Cookie: "
CookieString(cookie) ==
    cookie.name \o <<"=">> \o cookie.value
    \o (IF cookie.path.some THEN <<";", " ", "P", "a", "t", "h", "=">> \o cookie.path.value ELSE <<>>)
    \o (IF cookie.domain.some THEN <<";", " ", "D", "o", "m", "a", "i", "n", "=">> \o cookie.domain.value ELSE <<>>)
    \o (IF cookie.expires.some THEN <<";", " ", "E", "x", "p", "i", "r", "e", "s", "=">> \o FormatExpires(cookie.expires.value) ELSE <<>>)
    \o (IF cookie.max_age.some THEN <<";", " ", "M", "a", "x", "-", "A", "g", "e", "=">> \o ToDecimal(cookie.max_age.value) ELSE <<>>)
    \o (IF cookie.secure THEN <<";", " ", "S", "e", "c", "u", "r", "e">> ELSE <<>>)
    \o (IF cookie.http_only THEN <<";", " ", "H", "t", "t", "p", "O", "n", "l", "y">> ELSE <<>>)

\* the loop over the headers, in the map's iteration order
RECURSIVE HeaderLinesText(_, _, _)
HeaderLinesText(headers, order, i) ==
    IF i > Len(order) THEN <<>>
    ELSE order[i] \o <<":", " ">> \o headers[order[i]] \o <<"\r", "\n">>
         \o HeaderLinesText(headers, order, i + 1)

\* the loop over the cookies, in the map's iteration order
RECURSIVE CookieLinesText(_, _, _)
CookieLinesText(cookies, order, i) ==
    IF i > Len(order) THEN <<>>
    ELSE <<"S", "e", "t", "-", "C", "o", "o", "k", "i", "e", ":", " ">> \o CookieString(cookies[order[i]]) \o <<"\r", "\n">>
         \o CookieLinesText(cookies, order, i + 1)

\* a faulty serializer that announces the number of characters of the body
ResponseToStringCharCount(response, header_order, cookie_order) ==
    <<"H", "T", "T", "P", "/", "1", ".", "1", " ">> \o ToDecimal(StatusCode(response.status_code)[2]) \o <<" ">>
    \o ReasonChars(response.status_code) \o <<"\r", "\n">>
    \o <<"C", "o", "n", "t", "e", "n", "t", "-", "L", "e", "n", "g", "t", "h", ":", " ">> \o ToDecimal(Len(response.body)) \o <<"\r", "\n">>
    \o HeaderLinesText(response.headers, header_order, 1)
    \o CookieLinesText(response.cookies, cookie_order, 1)
    \o <<"\r", "\n">>
    \o response.body

\* Response::to_string
ResponseToString(response, header_order, cookie_order) ==
    <<"H", "T", "T", "P", "/", "1", ".", "1", " ">> \o ToDecimal(StatusCode(response.status_code)[2]) \o <<" ">>
    \o ReasonChars(response.status_code) \o <<"\r", "\n">>
    \o <<"C", "o", "n", "t", "e", "n", "t", "-", "L", "e", "n", "g", "t", "h", ":", " ">> \o ToDecimal(ByteLength(response.body)) \o <<"\r", "\n">>
    \o HeaderLinesText(response.headers, header_order, 1)
    \o CookieLinesText(response.cookies, cookie_order, 1)
    \o <<"\r", "\n">>
    \o response.body

\* ------------------------------------------------------------------------
\* utils::format_path_by_slashes
\* ------------------------------------------------------------------------
\* str::replace("/?", "?"): every occurrence found from left to right,
\* the search going on after the replaced text
RECURSIVE ReplaceSlashQuery(_)
ReplaceSlashQuery(text) ==
    IF Len(text) < 2 THEN text
    ELSE IF text[1] = "/" /\ text[2] = "?"
         THEN <<"?">> \o ReplaceSlashQuery(SubSeq(text, 3, Len(text)))
         ELSE <<text[1]>> \o ReplaceSlashQuery(Tail(text))

\* path.chars().nth(path.len() - 1): the character whose index among the
\* characters is the length in bytes less one, None when there are fewer
\* characters than that
CharAtByteLength(path) ==
    IF ByteLength(path) >= 1 /\ ByteLength(path) <= Len(path)
    THEN Some(path[ByteLength(path)]) ELSE None

\* the outcome of format_path_by_slashes
FormatOk(path) == [ok |-> TRUE, value |-> path, error |-> ""]
FormatErr(e) == [ok |-> FALSE, value |-> <<>>, error |-> e]

\* format_path_by_slashes(path)
format_path_by_slashes(path) ==
    LET given == IF Len(Trim(path)) = 0 THEN <<"/">> ELSE path
        last_char == CharAtByteLength(given)
    IN IF ~last_char.some THEN FormatErr("PathFormatError")
       ELSE LET popped == IF last_char.value = "/"
                          THEN SubSeq(given, 1, Len(given) - 1) ELSE given
            IN FormatOk(ReplaceSlashQuery(popped))

\* ------------------------------------------------------------------------
\* WebServer::handle_request: one connection from its bytes to its answer
\* ------------------------------------------------------------------------
\* the parsing part of WebServer::handle_request: the lines are read, then
\* Request::new is given the vector; when the reading block panics or
\* aborts the process, nothing is returned, and the outcome is named by
\* the message of the panic or of the abort
ParseRequest(stream, fail_at, memory) ==
    LET read == ReadRequestVector(stream, fail_at, memory)
    IN IF read.ok THEN RequestNew(read.vector) ELSE RequestErr(read.error)

\* the names of HttpStatusCode
StatusNames ==
    {"OK", "Created", "Accepted", "NoContent", "MovedPermanently", "Found", "SeeOther",
     "NotModified", "BadRequest", "Unauthorized", "Forbidden", "NotFound",
     "MethodNotAllowed", "InternalServerError", "NotImplemented", "BadGateway",
     "ServiceUnavailable"}

\* the characters of a text that a closure or the router put into a
\* Response as a string of the model: a body, the name of a header, a
\* reason phrase
TextChars(text) == [i \in 1..Len(text) |-> SubSeq(text, i, i)]

\* the Response as Response::to_string reads it, its texts as characters
WireForm(res) ==
    [status_code |-> res.status_code,
     body |-> TextChars(res.body),
     headers |-> [k \in {TextChars(h) : h \in DOMAIN res.headers} |->
                     res.headers[CHOOSE h \in DOMAIN res.headers : TextChars(h) = k]],
     cookies |-> res.cookies]

\* what one call of WebServer::handle_request did: what it returned, the
\* characters it wrote whole, the number of bytes it wrote of the
\* character after them, and the closures it called
Handled(result, written, partial, closure_calls) ==
    [result |-> result, written |-> written, partial |-> partial, calls |-> closure_calls]

\* the first n bytes of a text: the characters that lie within them, and
\* the number of bytes that reach into the character after them
RECURSIVE BytePrefix(_, _)
BytePrefix(text, n) ==
    IF Len(text) = 0 \/ n = 0 THEN [text |-> <<>>, partial |-> 0]
    ELSE IF Utf8Width(text[1]) <= n
         THEN LET rest == BytePrefix(Tail(text), n - Utf8Width(text[1]))
              IN [text |-> <<text[1]>> \o rest.text, partial |-> rest.partial]
         ELSE [text |-> <<>>, partial |-> n]

\* stream.write_all(text.as_bytes()) to a peer that takes peer_takes bytes
\* and then fails every write, or that takes every byte (None): Ok with
\* the whole text written, or the io error with the bytes taken before it
WriteAll(text, peer_takes) ==
    IF peer_takes.some /\ peer_takes.value < ByteLength(text)
    THEN [ok |-> FALSE, written |-> BytePrefix(text, peer_takes.value).text,
          partial |-> BytePrefix(text, peer_takes.value).partial]
    ELSE [ok |-> TRUE, written |-> text, partial |-> 0]

\* the texts Response::to_string can give for a Response, its headers and
\* its cookies iterated in any order
SerializedForms(res) ==
    { ResponseToString(WireForm(res), order[1], order[2]) :
         order \in Orders(DOMAIN WireForm(res).headers)
                      \X Orders(DOMAIN WireForm(res).cookies) }

\* the answers to a parsed request: the chain, the router, the serialized
\* text, for every iteration order of the route table, of the headers
\* and of the cookies
AnswersTo(rts, mws, req) ==
    LET chain == ApplyMiddlewares(mws, 1, ContextNew(req), <<>>)
        Routed(order) == RouterHandleRequest(rts, order, chain.context)
    IN UNION { { [text |-> text, calls |-> chain.calls \o Routed(order).calls] :
                    text \in SerializedForms(Routed(order).response) } :
               order \in Orders(DOMAIN rts) }

\* WebServer::handle_request(router, stream), every outcome it can have: a
\* failed read or a failed Request::new returns the error before anything
\* is written, and a body that cannot be allocated ends the call, without
\* a return, in a panic or in the abort of the process, also before
\* anything is written; otherwise the router's answer is serialized and
\* written, and a failed write returns the io error after the closures
\* have run
WebServerHandleRequest(rts, mws, stream, fail_at, memory, peer_takes) ==
    LET parsed_request == ParseRequest(stream, fail_at, memory)
    IN IF ~parsed_request.ok
       THEN { Handled(parsed_request.error, <<>>, 0, <<>>) }
       ELSE { Handled(IF WriteAll(answer.text, peer_takes).ok THEN "Ok" ELSE "IO",
                      WriteAll(answer.text, peer_takes).written,
                      WriteAll(answer.text, peer_takes).partial,
                      answer.calls) :
                 answer \in AnswersTo(rts, mws, parsed_request.request) }

\* ------------------------------------------------------------------------
\* State
\* ------------------------------------------------------------------------
VARIABLES
    \* WebRouter.routes: pattern -> (method -> handler)
    routes,
    \* the router's ordered middleware list
    middlewares,
    \* TRUE once WebServer::listen has started (it never returns)
    serving,
    \* number of route registrations made so far
    registrations,
    \* the request handled last, its answer, and the closures called for it
    \* in call order (middlewares and handler, each with the context it got)
    request, response, calls,
    \* inputs and result of a direct call of match_dynamic_route
    request_path, route_path, matched,
    \* ThreadPool.sender: TRUE while it is Some (the send side is open)
    sender,
    \* the jobs in the channel, oldest first
    queue,
    \* the holder of the Mutex around the receive end, 0 when it is free
    receiver_lock,
    \* where each worker thread is in its loop, and the job it has taken
    worker_state, current_job,
    \* what the last call of ThreadPool::execute returned, and the number
    \* of jobs submitted so far
    execute_result, submitted,
    \* the ids of the jobs taken from the channel and of the jobs that returned
    dequeued, finished,
    \* where Drop for ThreadPool is, and the worker it joins next
    teardown, join_index,
    \* the jobs that were executing and the jobs that were queued at the
    \* moment the send side was dropped
    at_drop,
    \* for every job, the workers whose recv returned it and the workers
    \* whose call of it came to an end, in order
    takes, runs,
    \* the ids of the jobs whose send into the channel succeeded
    sent,
    \* what a client sends on a connection (the lines, the bytes after them,
    \* the read that fails), the outcome of parsing it as WebServer::
    \* handle_request does, and the outcome of Request::new on the lines
    conn_input, parsed, direct,
    \* a Response given to Response::to_string, and the text it returned
    wire_response, wire_text,
    \* for every connection job that a worker has run: what the client had
    \* sent, what WebServer::handle_request returned, the bytes written to
    \* the connection, the closures called, and the worker
    served,
    \* the last registration call (get, post, patch, delete or middleware):
    \* its arguments and whether Arc::get_mut gave it the router
    registered,
    \* the argument of a direct call of format_path_by_slashes, and what
    \* the call returned
    path_given, path_formatted,
    \* per accepted connection, the position of the call of
    \* WebServer::handle_request that serves it and what the call has done
    connections,
    \* how many requests the router has answered and the worker has dropped
    handled

router_vars == <<routes, middlewares, serving, registrations, request, response, calls>>
match_vars == <<request_path, route_path, matched>>
pool_vars == <<sender, queue, receiver_lock, worker_state, current_job, execute_result,
               submitted, dequeued, finished, teardown, join_index, at_drop, takes, runs, sent>>
parse_vars == <<conn_input, parsed, direct, wire_response, wire_text>>
register_vars == <<registered>>
format_vars == <<path_given, path_formatted>>
conn_vars == <<connections>>
vars == <<router_vars, match_vars, pool_vars, parse_vars, served, register_vars, format_vars, conn_vars, handled>>

\* the process is alive: no failed allocation has aborted it; an abort
\* ends every thread at once, and no operation of the program happens
\* after it
ProcessRuns == \A c \in DOMAIN connections : connections[c].pc # "aborted"

\* ------------------------------------------------------------------------
\* Inputs of the exploration
\* ------------------------------------------------------------------------
\* characters of the paths and patterns given to match_dynamic_route
MatchAlphabet == {"/", ":", "?", "a"}

\* methods used in registrations and requests
Methods == {"GET", "POST"}

\* patterns registered in the routing exploration
RouterPatterns ==
    { <<"/", "a">>, <<"/", ":", "x">>, <<"/", ":", "y">>, <<"/", "a", "/", ":", "x">> }

\* request paths of the routing exploration
RouterPaths ==
    { <<"/">>, <<"/", "a">>, <<"/", "b">>, <<"/", "a", "/", "b">>, <<"/", "b", "/", "b">>,
      <<"/", "a", "?", "a", "=", "b">>, <<"/", "b", "?", "a", "=", "b">>,
      <<"/", "b", "?", "=", "b">>, <<"/", "a", "/", "b", "/", "a">> }

\* patterns and request paths of the query exploration: every query text
\* up to MaxQueryLen after "/b?", and the path without a query
QueryPatterns == { <<"/", ":", "x">>, <<"/", "b", "?", "a">> }
QueryAlphabet == {"?", "&", "=", "a"}
QueryPaths ==
    { <<"/", "b">> } \cup { <<"/", "b", "?">> \o q : q \in StringsUpTo(QueryAlphabet, MaxQueryLen) }

\* the request lines, the later lines and the bytes after the lines that
\* a client of the parsing exploration sends
RequestLines ==
    { <<"G", "E", "T", " ", "/", "a", " ", "H", "T", "T", "P", "/", "1", ".", "1">>,
      <<"G", "E", "T", " ", "/", "a">>,
      <<"P", "U", "T", " ", " ", "/", "b", "\t", "H", "T", "T", "P", "/", "1", ".", "0", "\f", "x">>,
      <<>> }
HeaderLines ==
    { <<"C", "o", "n", "t", "e", "n", "t", "-", "L", "e", "n", "g", "t", "h", ":", " ", "2">>,
      <<"C", "o", "n", "t", "e", "n", "t", "-", "L", "e", "n", "g", "t", "h", ":", "2">>,
      <<"C", "o", "n", "t", "e", "n", "t", "-", "L", "e", "n", "g", "t", "h", ":", " ", "x">>,
      <<"C", "o", "n", "t", "e", "n", "t", "-", "L", "e", "n", "g", "t", "h", ":", " ", "0">>,
      <<" ">>,
      <<>> }
Trailers ==
    { <<>>, <<"h">>, <<"h", "i">>, <<"h", "i", "!">>, <<"U+00E9">>, <<"a", "U+00E9">> }
FailAts == {0, 2}

\* the most bytes the allocator serves in one allocation at the moment a
\* body is allocated, as a numeral: four gibibytes, or a single byte when
\* the memory of the machine is used up
AmpleMemory == <<"4", "2", "9", "4", "9", "6", "7", "2", "9", "6">>
ScarceMemory == <<"1">>
Memories == {AmpleMemory, ScarceMemory}
ConnInputs ==
    [lines : {<<>>} \cup {<<r>> \o h : r \in RequestLines,
                                       h \in StringsUpTo(HeaderLines, MaxHeaderLines)},
     trailer : Trailers, fail_at : FailAts, memory : Memories]

\* what the clients of the serving exploration send: a request for "/a",
\* nothing at all, a request line of two tokens, a Content-Length that is
\* no number, a request whose second read fails, a body announced with
\* usize::MAX bytes, and a body announced with a million million bytes
ServeInputs ==
    { [lines |-> <<<<"G", "E", "T", " ", "/", "a", " ", "H", "T", "T", "P", "/", "1", ".", "1">>, <<>>>>, trailer |-> <<>>, fail_at |-> 0, memory |-> AmpleMemory, peer_takes |-> None],
      [lines |-> <<>>, trailer |-> <<>>, fail_at |-> 0, memory |-> AmpleMemory, peer_takes |-> None],
      [lines |-> <<<<"G", "E", "T", " ", "/", "a">>, <<>>>>, trailer |-> <<>>, fail_at |-> 0, memory |-> AmpleMemory, peer_takes |-> None],
      [lines |-> <<<<"G", "E", "T", " ", "/", "a", " ", "H", "T", "T", "P", "/", "1", ".", "1">>, <<"C", "o", "n", "t", "e", "n", "t", "-", "L", "e", "n", "g", "t", "h", ":", " ", "x">>, <<>>>>, trailer |-> <<>>, fail_at |-> 0, memory |-> AmpleMemory, peer_takes |-> None],
      [lines |-> <<<<"G", "E", "T", " ", "/", "a", " ", "H", "T", "T", "P", "/", "1", ".", "1">>, <<>>>>, trailer |-> <<>>, fail_at |-> 2, memory |-> AmpleMemory, peer_takes |-> None],
      [lines |-> <<<<"P", "O", "S", "T", " ", "/", "a", " ", "H", "T", "T", "P", "/", "1", ".", "1">>, <<"C", "o", "n", "t", "e", "n", "t", "-", "L", "e", "n", "g", "t", "h", ":", " ", "1", "8", "4", "4", "6", "7", "4", "4", "0", "7", "3", "7", "0", "9", "5", "5", "1", "6", "1", "5">>, <<>>>>, trailer |-> <<"h", "i">>, fail_at |-> 0, memory |-> AmpleMemory, peer_takes |-> None],
      [lines |-> <<<<"P", "O", "S", "T", " ", "/", "a", " ", "H", "T", "T", "P", "/", "1", ".", "1">>, <<"C", "o", "n", "t", "e", "n", "t", "-", "L", "e", "n", "g", "t", "h", ":", " ", "1", "0", "0", "0", "0", "0", "0", "0", "0", "0", "0", "0", "0">>, <<>>>>, trailer |-> <<"h", "i">>, fail_at |-> 0, memory |-> AmpleMemory, peer_takes |-> None] }

\* what the clients of the method exploration send: a request for "/a"
\* with the method token PUT, and the request with the method token in
\* lower case from a peer that takes five bytes of the answer
MethodInputs ==
    { [lines |-> <<<<"P", "U", "T", " ", "/", "a", " ", "H", "T", "T", "P", "/", "1", ".", "1">>, <<>>>>, trailer |-> <<>>, fail_at |-> 0, memory |-> AmpleMemory, peer_takes |-> None],
      [lines |-> <<<<"g", "e", "t", " ", "/", "a", " ", "H", "T", "T", "P", "/", "1", ".", "1">>, <<>>>>, trailer |-> <<>>, fail_at |-> 0, memory |-> AmpleMemory, peer_takes |-> Some(5)] }

\* the lines a client of the header exploration sends after the request
\* line: a header, the same name between a form feed and a no-break space
\* with another value,
\* a value that holds a colon, a colon alone, a line without a colon, and
\* a blank line
HeaderTexts ==
    { <<"a", ":", " ", "1">>,
      <<"\f", "a", "U+00A0", ":", "2">>,
      <<"b", ":", "1", ":", "2", " ">>,
      <<":">>,
      <<"x">>,
      <<" ">> }
HeaderInputs ==
    [lines : {<<r>> \o h : r \in {<<"G", "E", "T", " ", "/", "a", " ", "H", "T", "T", "P", "/", "1", ".", "1">>},
                           h \in StringsUpTo(HeaderTexts, MaxHeaderLines)},
     trailer : {<<>>}, fail_at : {0}, memory : {AmpleMemory}]

\* what the clients of the stepwise exploration send, and how many bytes
\* of the answer the peer takes: a request for "/a"; that request with a
\* second request behind it on the same connection; that request from a
\* peer that takes no byte of the answer, or five bytes; a
\* request line of two tokens; a request whose second read fails; a body
\* announced with usize::MAX bytes; a body announced with a million
\* million bytes; a request with a body of two bytes and a second
\* request behind the body
ConnectionInputs ==
    { [lines |-> <<<<"G", "E", "T", " ", "/", "a", " ", "H", "T", "T", "P", "/", "1", ".", "1">>, <<>>>>, trailer |-> <<>>, fail_at |-> 0, memory |-> AmpleMemory, peer_takes |-> None],
      [lines |-> <<<<"G", "E", "T", " ", "/", "a", " ", "H", "T", "T", "P", "/", "1", ".", "1">>, <<>>, <<"P", "U", "T", " ", "/", "a", " ", "H", "T", "T", "P", "/", "1", ".", "1">>, <<>>>>, trailer |-> <<>>, fail_at |-> 0, memory |-> AmpleMemory, peer_takes |-> None],
      [lines |-> <<<<"G", "E", "T", " ", "/", "a", " ", "H", "T", "T", "P", "/", "1", ".", "1">>, <<>>>>, trailer |-> <<>>, fail_at |-> 0, memory |-> AmpleMemory, peer_takes |-> Some(0)],
      [lines |-> <<<<"G", "E", "T", " ", "/", "a", " ", "H", "T", "T", "P", "/", "1", ".", "1">>, <<>>>>, trailer |-> <<>>, fail_at |-> 0, memory |-> AmpleMemory, peer_takes |-> Some(5)],
      [lines |-> <<<<"G", "E", "T", " ", "/", "a">>, <<>>>>, trailer |-> <<>>, fail_at |-> 0, memory |-> AmpleMemory, peer_takes |-> None],
      [lines |-> <<<<"G", "E", "T", " ", "/", "a", " ", "H", "T", "T", "P", "/", "1", ".", "1">>, <<>>>>, trailer |-> <<>>, fail_at |-> 2, memory |-> AmpleMemory, peer_takes |-> None],
      [lines |-> <<<<"P", "O", "S", "T", " ", "/", "a", " ", "H", "T", "T", "P", "/", "1", ".", "1">>, <<"C", "o", "n", "t", "e", "n", "t", "-", "L", "e", "n", "g", "t", "h", ":", " ", "1", "8", "4", "4", "6", "7", "4", "4", "0", "7", "3", "7", "0", "9", "5", "5", "1", "6", "1", "5">>, <<>>>>, trailer |-> <<"h", "i">>, fail_at |-> 0, memory |-> AmpleMemory, peer_takes |-> None],
      [lines |-> <<<<"P", "O", "S", "T", " ", "/", "a", " ", "H", "T", "T", "P", "/", "1", ".", "1">>, <<"C", "o", "n", "t", "e", "n", "t", "-", "L", "e", "n", "g", "t", "h", ":", " ", "1", "0", "0", "0", "0", "0", "0", "0", "0", "0", "0", "0", "0">>, <<>>>>, trailer |-> <<"h", "i">>, fail_at |-> 0, memory |-> AmpleMemory, peer_takes |-> None],
      [lines |-> <<<<"P", "O", "S", "T", " ", "/", "a", " ", "H", "T", "T", "P", "/", "1", ".", "1">>, <<"C", "o", "n", "t", "e", "n", "t", "-", "L", "e", "n", "g", "t", "h", ":", " ", "2">>, <<>>>>, trailer |-> <<"h", "i", "G", "E", "T", " ", "/", "a", " ", "H", "T", "T", "P", "/", "1", ".", "1">> \o <<"\r", "\n", "\r", "\n">>, fail_at |-> 0, memory |-> AmpleMemory, peer_takes |-> None] }

\* what the clients of the isolation exploration send: two requests that
\* differ in the captured segment and in the query value
IsolationInputs ==
    { [lines |-> <<<<"G", "E", "T", " ", "/", "b", "?", "a", "=", "1", " ", "H", "T", "T", "P", "/", "1", ".", "1">>, <<>>>>, trailer |-> <<>>, fail_at |-> 0, memory |-> AmpleMemory, peer_takes |-> None],
      [lines |-> <<<<"G", "E", "T", " ", "/", "c", "?", "a", "=", "2", " ", "H", "T", "T", "P", "/", "1", ".", "1">>, <<>>>>, trailer |-> <<>>, fail_at |-> 0, memory |-> AmpleMemory, peer_takes |-> None] }

\* the bytes of the connection: every line with its "\r\n", then the trailer
RECURSIVE WireLines(_)
WireLines(lines) ==
    IF Len(lines) = 0 THEN <<>>
    ELSE lines[1] \o <<"\r", "\n">> \o WireLines(Tail(lines))
StreamOf(input) == WireLines(input.lines) \o input.trailer

\* the Responses of the serialization exploration: a handler's status,
\* body, headers and cookies
SerializeStatuses == {"OK", "NotFound"}
SerializeBodies == { <<>>, <<"h", "i">>, <<"h", "U+00E9">> }
SerializeHeaderNames == { <<"X">>, <<"Y">>, <<"C", "o", "n", "t", "e", "n", "t", "-", "L", "e", "n", "g", "t", "h">> }
SerializeHeaderValues == { <<"9">>, <<"t">> }
SerializeCookies ==
    { [name |-> <<"a">>, value |-> <<"b">>, path |-> None, domain |-> None,
       expires |-> None, max_age |-> None, secure |-> FALSE, http_only |-> FALSE],
      [name |-> <<"s">>, value |-> <<"v">>, path |-> Some(<<"/">>), domain |-> Some(<<"d">>),
       expires |-> Some(0), max_age |-> Some(15), secure |-> TRUE, http_only |-> TRUE] }
SerializeResponses ==
    { [status_code |-> st, headers |-> h, body |-> b,
       cookies |-> [n \in {c.name : c \in cs} |-> CHOOSE c \in cs : c.name = n]] :
        st \in SerializeStatuses, b \in SerializeBodies,
        h \in UNION {[names -> SerializeHeaderValues] :
                        names \in {S \in SUBSET SerializeHeaderNames : Cardinality(S) <= MaxHeaders}},
        cs \in {S \in SUBSET SerializeCookies : Cardinality(S) <= MaxCookies} }

\* ------------------------------------------------------------------------
\* Initial states
\* ------------------------------------------------------------------------
RouterInit ==
    /\ routes = EmptyMap
    /\ middlewares = <<>>
    /\ serving = FALSE
    /\ registrations = 0
    /\ request = None
    /\ response = None
    /\ calls = <<>>

MatchIdle ==
    /\ request_path = <<>>
    /\ route_path = <<>>
    /\ matched = None

\* no registration call and no call of format_path_by_slashes yet
CallsIdle ==
    /\ registered = None
    /\ path_given = <<>>
    /\ path_formatted = None

ParseIdle ==
    /\ CallsIdle
    /\ conn_input = [lines |-> <<>>, trailer |-> <<>>, fail_at |-> 0, memory |-> AmpleMemory]
    /\ parsed = None
    /\ direct = None
    /\ wire_response = ResponseDefault
    /\ wire_text = None

\* ------------------------------------------------------------------------
\* Actions of the router
\* ------------------------------------------------------------------------
\* the entry of (path, method) in a route table: what HashMap::get gives
RouteEntry(rts, path, method) ==
    IF path \in DOMAIN rts /\ method \in DOMAIN rts[path]
    THEN Some(rts[path][method]) ELSE None

\* a faulty add that starts a new method map for the path
RouterAddFreshMap(rts, path, method, handler) ==
    MapInsert(rts, path, MapInsert(EmptyMap, method, handler))

\* WebRouter::add(path, method, handler)
RouterAdd(rts, path, method, handler) ==
    MapInsert(rts, path,
              MapInsert(IF path \in DOMAIN rts THEN rts[path] ELSE EmptyMap, method, handler))

\* WebServer::get / post / patch / delete before listen: the router is
\* uniquely owned, so the registration reaches WebRouter::add
AddRouteOf(patterns, handlers) ==
    /\ ProcessRuns
    /\ ~serving
    /\ registrations < MaxAdds
    /\ \E path \in patterns, method \in Methods, handler \in handlers :
          routes' = RouterAdd(routes, path, method, handler)
    /\ registrations' = registrations + 1
    /\ UNCHANGED <<middlewares, serving, request, response, calls, match_vars, pool_vars, parse_vars, served, register_vars, format_vars, conn_vars, handled>>
AddRoute(patterns) == AddRouteOf(patterns, Handlers)

\* WebServer::serve_static(dir_path, route_path) before listen: registers
\* its closure with get under route_path followed by "/:filename"
ServeStatic(route_paths) ==
    /\ ProcessRuns
    /\ ~serving
    /\ registrations < MaxAdds
    /\ \E root \in route_paths :
          routes' = RouterAdd(routes, root \o <<"/", ":">> \o FilenameParam,
                              "GET", "static")
    /\ registrations' = registrations + 1
    /\ UNCHANGED <<middlewares, serving, request, response, calls, match_vars, pool_vars, parse_vars, served, register_vars, format_vars, conn_vars, handled>>

\* WebServer::middleware before listen: appends to the middleware list
AddMiddleware ==
    /\ ProcessRuns
    /\ ~serving
    /\ Len(middlewares) < MaxMiddlewares
    /\ \E m \in MiddlewareIds : middlewares' = Append(middlewares, m)
    /\ UNCHANGED <<routes, serving, registrations, request, response, calls, match_vars, pool_vars, parse_vars, served, register_vars, format_vars, conn_vars, handled>>

\* WebServer::listen starts accepting connections
Listen ==
    /\ ProcessRuns
    /\ ~serving
    /\ serving' = TRUE
    /\ UNCHANGED <<routes, middlewares, registrations, request, response, calls, match_vars, pool_vars, parse_vars, served, register_vars, format_vars, conn_vars, handled>>

\* Arc::strong_count of the router: the WebServer's handle, and one clone
\* made by listen for every connection job that is queued or running (the
\* closure owns the clone until it has returned)
RouterOwners ==
    1 + Cardinality({i \in 1..Len(queue) : queue[i].kind = "connection"})
      + Cardinality({w \in 1..PoolSize : current_job[w].some
                                          /\ current_job[w].value.kind = "connection"})

\* a faulty registration that reaches the router whoever else owns it
RegisterRouteUnchecked(patterns) ==
    /\ ProcessRuns
    /\ registrations < MaxAdds
    /\ \E path \in patterns, method \in Methods, handler \in Handlers :
          /\ routes' = RouterAdd(routes, path, method, handler)
          /\ registered' = Some([call |-> "route", path |-> path, method |-> method,
                                 handler |-> handler, outcome |-> "added",
                                 replaced |-> RouteEntry(routes, path, method)])
    /\ registrations' = registrations + 1
    /\ UNCHANGED <<middlewares, serving, request, response, calls, match_vars, pool_vars,
                   parse_vars, served, format_vars, conn_vars, handled>>

\* WebServer::get / post / patch / delete at any time: Arc::get_mut gives
\* the router only to its single owner; otherwise the error is printed
\* and the call returns
RegisterRoute(patterns) ==
    /\ ProcessRuns
    /\ registrations < MaxAdds
    /\ \E path \in patterns, method \in Methods, handler \in Handlers :
          IF RouterOwners = 1
          THEN /\ routes' = RouterAdd(routes, path, method, handler)
               /\ registered' = Some([call |-> "route", path |-> path, method |-> method,
                                      handler |-> handler, outcome |-> "added",
                                      replaced |-> RouteEntry(routes, path, method)])
          ELSE /\ routes' = routes
               /\ registered' = Some([call |-> "route", path |-> path, method |-> method,
                                      handler |-> handler, outcome |-> "logged",
                                      replaced |-> None])
    /\ registrations' = registrations + 1
    /\ UNCHANGED <<middlewares, serving, request, response, calls, match_vars, pool_vars,
                   parse_vars, served, format_vars, conn_vars, handled>>

\* WebServer::middleware at any time, with the same test of ownership
RegisterMiddleware ==
    /\ ProcessRuns
    /\ registrations < MaxAdds
    /\ \E m \in MiddlewareIds :
          IF RouterOwners = 1
          THEN /\ middlewares' = Append(middlewares, m)
               /\ registered' = Some([call |-> "middleware", path |-> <<>>, method |-> "",
                                      handler |-> m, outcome |-> "added", replaced |-> None])
          ELSE /\ middlewares' = middlewares
               /\ registered' = Some([call |-> "middleware", path |-> <<>>, method |-> "",
                                      handler |-> m, outcome |-> "logged", replaced |-> None])
    /\ registrations' = registrations + 1
    /\ UNCHANGED <<routes, serving, request, response, calls, match_vars, pool_vars,
                   parse_vars, served, format_vars, conn_vars, handled>>

\* a faulty handling that uses the middleware list up
HandleRequestDropsMiddlewares(paths) ==
    /\ ProcessRuns
    /\ serving
    /\ request = None
    /\ \E path \in paths, method \in Methods, order \in Orders(DOMAIN routes) :
          LET req == [method |-> method, path |-> path]
              chain == ApplyMiddlewares(middlewares, 1, ContextNew(req), <<>>)
              res == RouterHandleRequest(routes, order, chain.context)
          IN /\ request' = Some(req)
             /\ response' = Some(res.response)
             /\ calls' = chain.calls \o res.calls
    /\ middlewares' = <<>>
    /\ UNCHANGED <<routes, serving, registrations, match_vars, pool_vars, parse_vars, served, register_vars, format_vars, conn_vars, handled>>

\* one request handled by the router: a fresh Context, the middleware
\* chain, then matching and dispatch; the route table is iterated in any
\* order a HashMap may produce
HandleRequest(paths) ==
    /\ ProcessRuns
    /\ serving
    /\ request = None
    /\ \E path \in paths, method \in Methods, order \in Orders(DOMAIN routes) :
          LET req == [method |-> method, path |-> path]
              chain == ApplyMiddlewares(middlewares, 1, ContextNew(req), <<>>)
              res == RouterHandleRequest(routes, order, chain.context)
          IN /\ request' = Some(req)
             /\ response' = Some(res.response)
             /\ calls' = chain.calls \o res.calls
    /\ UNCHANGED <<routes, middlewares, serving, registrations, match_vars, pool_vars, parse_vars, served, register_vars, format_vars, conn_vars, handled>>

\* the worker writes the answer to the connection and drops the request's
\* values; the next request starts from nothing but the router
FinishRequest ==
    /\ ProcessRuns
    /\ request # None
    /\ request' = None
    /\ response' = None
    /\ calls' = <<>>
    /\ UNCHANGED <<routes, middlewares, serving, registrations, match_vars, pool_vars, parse_vars, served, register_vars, format_vars, conn_vars, handled>>

\* the worker writes the answer to the connection and drops the request's
\* values, the requests answered so far being counted
FinishAndCount ==
    /\ ProcessRuns
    /\ request # None
    /\ handled < MaxRequests
    /\ request' = None
    /\ response' = None
    /\ calls' = <<>>
    /\ handled' = handled + 1
    /\ UNCHANGED <<routes, middlewares, serving, registrations, match_vars, pool_vars, parse_vars, served, register_vars, format_vars, conn_vars>>

\* ------------------------------------------------------------------------
\* A direct call of match_dynamic_route on bounded inputs
\* ------------------------------------------------------------------------
MatchInit ==
    /\ request_path \in StringsUpTo(MatchAlphabet, MaxReqLen)
    /\ route_path \in StringsUpTo(MatchAlphabet, MaxPatLen)
    /\ matched = None

MatchDynamicRoute ==
    /\ matched = None
    /\ matched' = Some(match_dynamic_route(request_path, route_path))
    /\ UNCHANGED <<request_path, route_path, router_vars, pool_vars, parse_vars, served, register_vars, format_vars, conn_vars, handled>>

\* ------------------------------------------------------------------------
\* Parsing of a connection's input on bounded inputs
\* ------------------------------------------------------------------------
ParseConnection ==
    /\ parsed = None
    /\ parsed' = Some(ParseRequest(StreamOf(conn_input), conn_input.fail_at, conn_input.memory))
    /\ UNCHANGED <<conn_input, direct, wire_response, wire_text,
                   router_vars, match_vars, pool_vars, served, register_vars, format_vars, conn_vars, handled>>

\* Request::new called with the lines as its input vector
CallRequestNew ==
    /\ direct = None
    /\ direct' = Some(RequestNew(conn_input.lines))
    /\ UNCHANGED <<conn_input, parsed, wire_response, wire_text,
                   router_vars, match_vars, pool_vars, served, register_vars, format_vars, conn_vars, handled>>

\* ------------------------------------------------------------------------
\* Serialization of a Response on bounded inputs
\* ------------------------------------------------------------------------
\* Response::to_string(), the two maps iterated in any order a HashMap may
\* produce
Serialize ==
    /\ wire_text = None
    /\ \E header_order \in Orders(DOMAIN wire_response.headers),
          cookie_order \in Orders(DOMAIN wire_response.cookies) :
          wire_text' = Some(ResponseToString(wire_response, header_order, cookie_order))
    /\ UNCHANGED <<conn_input, parsed, direct, wire_response,
                   router_vars, match_vars, pool_vars, served, register_vars, format_vars, conn_vars, handled>>

\* ------------------------------------------------------------------------
\* The worker pool
\* ------------------------------------------------------------------------
Workers == 1..PoolSize

\* what a submitted closure does when a worker calls it: it returns, it
\* panics, or it never comes back (a handler that blocks for ever)
JobKinds == {"returns", "panics", "blocks"}

\* a worker thread has ended: its loop broke, or its job panicked
Exited(w) == worker_state[w] \in {"terminated", "panicked"}

\* the receive end lives as long as some worker thread holds its Arc
ReceiverAlive(ws) == \E w \in Workers : ws[w] \notin {"terminated", "panicked"}

\* the connections the listener can accept
Connections == 1..MaxConnections

\* a connection no client has made yet
ConnPending ==
    [pc |-> "pending", input |-> [lines |-> <<>>, trailer |-> <<>>, fail_at |-> 0, memory |-> AmpleMemory,
                                  peer_takes |-> None],
     vector |-> <<>>, request |-> None, pending |-> None, answer |-> <<>>,
     calls |-> <<>>,
     written |-> <<>>, partial |-> 0, result |-> "", open |-> FALSE, events |-> <<>>]

\* ThreadPool::new(size): an open channel, size worker threads at the top
\* of their loop
PoolInit ==
    /\ sender = TRUE
    /\ queue = <<>>
    /\ receiver_lock = 0
    /\ worker_state = [w \in Workers |-> "locking"]
    /\ current_job = [w \in Workers |-> None]
    /\ execute_result = None
    /\ submitted = 0
    /\ dequeued = {}
    /\ finished = {}
    /\ teardown = "idle"
    /\ join_index = 1
    /\ at_drop = None
    /\ takes = [j \in 1..MaxJobs |-> <<>>]
    /\ runs = [j \in 1..MaxJobs |-> <<>>]
    /\ sent = {}
    /\ served = [j \in 1..MaxJobs |-> None]
    /\ connections = [c \in Connections |-> ConnPending]
    /\ handled = 0

\* a faulty submission over a channel of capacity one, where send waits
\* for room
ExecuteBounded ==
    /\ ProcessRuns
    /\ teardown = "idle"
    /\ submitted < MaxJobs
    /\ Len(queue) < 1
    /\ \E kind \in JobKinds :
          LET job == [id |-> submitted + 1, kind |-> kind]
          IN queue' = IF ReceiverAlive(worker_state) THEN Append(queue, job) ELSE queue
    /\ sent' = IF ReceiverAlive(worker_state) THEN sent \cup {submitted + 1} ELSE sent
    /\ submitted' = submitted + 1
    /\ execute_result' = IF sender THEN Some("Ok") ELSE Some("SendError")
    /\ UNCHANGED <<sender, receiver_lock, worker_state, current_job, dequeued, finished,
                   teardown, join_index, at_drop, takes, runs, router_vars, match_vars, parse_vars, served, register_vars, format_vars, conn_vars, handled>>

\* ThreadPool::execute(f) called by the accept loop: the job goes into the
\* channel; a failed send (no receive end left) is discarded by `let _ =`
\* and the call returns Ok(()) all the same
Execute ==
    /\ ProcessRuns
    /\ teardown = "idle"
    /\ submitted < MaxJobs
    /\ \E kind \in JobKinds :
          LET job == [id |-> submitted + 1, kind |-> kind]
          IN queue' = IF ReceiverAlive(worker_state) THEN Append(queue, job) ELSE queue
    /\ sent' = IF ReceiverAlive(worker_state) THEN sent \cup {submitted + 1} ELSE sent
    /\ submitted' = submitted + 1
    /\ execute_result' = IF sender THEN Some("Ok") ELSE Some("SendError")
    /\ UNCHANGED <<sender, receiver_lock, worker_state, current_job, dequeued, finished,
                   teardown, join_index, at_drop, takes, runs, router_vars, match_vars, parse_vars, served, register_vars, format_vars, conn_vars, handled>>

\* a faulty lock step that lets a worker whose loop has ended take the
\* lock again
LockRevives(w) ==
    /\ ProcessRuns
    /\ worker_state[w] \in {"locking", "terminated"}
    /\ receiver_lock = 0
    /\ receiver_lock' = w
    /\ worker_state' = [worker_state EXCEPT ![w] = "receiving"]
    /\ UNCHANGED <<sender, queue, current_job, execute_result, submitted, dequeued, finished,
                   teardown, join_index, at_drop, takes, runs, sent, router_vars, match_vars, parse_vars, served, register_vars, format_vars, conn_vars, handled>>

\* receiver.lock(): the worker gets the Mutex when it is free
Lock(w) ==
    /\ ProcessRuns
    /\ worker_state[w] = "locking"
    /\ receiver_lock = 0
    /\ receiver_lock' = w
    /\ worker_state' = [worker_state EXCEPT ![w] = "receiving"]
    /\ UNCHANGED <<sender, queue, current_job, execute_result, submitted, dequeued, finished,
                   teardown, join_index, at_drop, takes, runs, sent, router_vars, match_vars, parse_vars, served, register_vars, format_vars, conn_vars, handled>>

\* a faulty receive that fails as soon as the send side is gone, whatever
\* is still in the channel
ReceiveErrOnHangup(w) ==
    /\ ProcessRuns
    /\ worker_state[w] = "receiving"
    /\ receiver_lock = w
    /\ \/ /\ queue # <<>>
          /\ sender
          /\ current_job' = [current_job EXCEPT ![w] = Some(Head(queue))]
          /\ queue' = Tail(queue)
          /\ dequeued' = dequeued \cup {Head(queue).id}
          /\ takes' = [takes EXCEPT ![Head(queue).id] = Append(@, w)]
          /\ worker_state' = [worker_state EXCEPT ![w] = "running"]
       \/ /\ ~sender
          /\ worker_state' = [worker_state EXCEPT ![w] = "terminated"]
          /\ UNCHANGED <<current_job, queue, dequeued, takes>>
    /\ receiver_lock' = 0
    /\ UNCHANGED <<sender, execute_result, submitted, finished, teardown, join_index,
                   at_drop, runs, sent, router_vars, match_vars, parse_vars, served, register_vars, format_vars, conn_vars, handled>>

\* a faulty receive that hands out the oldest job and leaves it in the channel
ReceivePeek(w) ==
    /\ ProcessRuns
    /\ worker_state[w] = "receiving"
    /\ receiver_lock = w
    /\ \/ /\ queue # <<>>
          /\ current_job' = [current_job EXCEPT ![w] = Some(Head(queue))]
          /\ dequeued' = dequeued \cup {Head(queue).id}
          /\ takes' = [takes EXCEPT ![Head(queue).id] = Append(@, w)]
          /\ worker_state' = [worker_state EXCEPT ![w] = "running"]
          /\ UNCHANGED queue
       \/ /\ queue = <<>>
          /\ ~sender
          /\ worker_state' = [worker_state EXCEPT ![w] = "terminated"]
          /\ UNCHANGED <<current_job, queue, dequeued, takes>>
    /\ receiver_lock' = 0
    /\ UNCHANGED <<sender, execute_result, submitted, finished, teardown, join_index,
                   at_drop, runs, sent, router_vars, match_vars, parse_vars, served, register_vars, format_vars, conn_vars, handled>>

\* a faulty receive that keeps the guard while the job it took executes
ReceiveKeepsLock(w) ==
    /\ ProcessRuns
    /\ worker_state[w] = "receiving"
    /\ receiver_lock = w
    /\ \/ /\ queue # <<>>
          /\ current_job' = [current_job EXCEPT ![w] = Some(Head(queue))]
          /\ queue' = Tail(queue)
          /\ dequeued' = dequeued \cup {Head(queue).id}
          /\ takes' = [takes EXCEPT ![Head(queue).id] = Append(@, w)]
          /\ worker_state' = [worker_state EXCEPT ![w] = "running"]
          /\ receiver_lock' = w
       \/ /\ queue = <<>>
          /\ ~sender
          /\ worker_state' = [worker_state EXCEPT ![w] = "terminated"]
          /\ receiver_lock' = 0
          /\ UNCHANGED <<current_job, queue, dequeued, takes>>
    /\ UNCHANGED <<sender, execute_result, submitted, finished, teardown, join_index,
                   at_drop, runs, sent, router_vars, match_vars, parse_vars, served, register_vars, format_vars, conn_vars, handled>>

\* a faulty receive that takes a job out of the channel and drops it unrun
ReceiveDiscards(w) ==
    /\ ProcessRuns
    /\ worker_state[w] = "receiving"
    /\ receiver_lock = w
    /\ \/ /\ queue # <<>>
          /\ queue' = Tail(queue)
          /\ dequeued' = dequeued \cup {Head(queue).id}
          /\ takes' = [takes EXCEPT ![Head(queue).id] = Append(@, w)]
          /\ worker_state' = [worker_state EXCEPT ![w] = "locking"]
          /\ UNCHANGED current_job
       \/ /\ queue = <<>>
          /\ ~sender
          /\ worker_state' = [worker_state EXCEPT ![w] = "terminated"]
          /\ UNCHANGED <<current_job, queue, dequeued, takes>>
    /\ receiver_lock' = 0
    /\ UNCHANGED <<sender, execute_result, submitted, finished, teardown, join_index,
                   at_drop, runs, sent, router_vars, match_vars, parse_vars, served, register_vars, format_vars, conn_vars, handled>>

\* rx.recv() under the lock, then the guard is dropped: a queued job is
\* returned also after the send side is gone; Err only when the channel
\* is empty and the send side is gone; otherwise the worker stays blocked
Receive(w) ==
    /\ ProcessRuns
    /\ worker_state[w] = "receiving"
    /\ receiver_lock = w
    /\ \/ /\ queue # <<>>
          /\ current_job' = [current_job EXCEPT ![w] = Some(Head(queue))]
          /\ queue' = Tail(queue)
          /\ dequeued' = dequeued \cup {Head(queue).id}
          /\ takes' = [takes EXCEPT ![Head(queue).id] = Append(@, w)]
          /\ worker_state' = [worker_state EXCEPT ![w] = "running"]
       \/ /\ queue = <<>>
          /\ ~sender
          /\ worker_state' = [worker_state EXCEPT ![w] = "terminated"]
          /\ UNCHANGED <<current_job, queue, dequeued, takes>>
    /\ receiver_lock' = 0
    /\ UNCHANGED <<sender, execute_result, submitted, finished, teardown, join_index,
                   at_drop, runs, sent, router_vars, match_vars, parse_vars, served, register_vars, format_vars, conn_vars, handled>>

\* a faulty worker that starts the job on the side and goes back to the
\* top of its loop while the job is still in execution
RunJobDetached(w) ==
    /\ ProcessRuns
    /\ worker_state[w] = "running"
    /\ worker_state' = [worker_state EXCEPT ![w] = "locking"]
    /\ current_job' = [current_job EXCEPT ![w] = None]
    /\ UNCHANGED <<sender, queue, receiver_lock, execute_result, submitted, dequeued, finished,
                   teardown, join_index, at_drop, takes, runs, sent, router_vars, match_vars, parse_vars, served, register_vars, format_vars, conn_vars, handled>>

\* job(): the job returns and the worker loops, or the job panics and the
\* worker thread unwinds (its Arc of the receive end is dropped; the
\* channel's jobs are destroyed with the last Arc)
RunJob(w) ==
    /\ ProcessRuns
    /\ worker_state[w] = "running"
    /\ \/ /\ current_job[w].value.kind = "returns"
          /\ finished' = finished \cup {current_job[w].value.id}
          /\ worker_state' = [worker_state EXCEPT ![w] = "locking"]
          /\ queue' = queue
       \/ /\ current_job[w].value.kind = "panics"
          /\ worker_state' = [worker_state EXCEPT ![w] = "panicked"]
          /\ queue' = IF ReceiverAlive(worker_state') THEN queue ELSE <<>>
          /\ finished' = finished
    /\ current_job' = [current_job EXCEPT ![w] = None]
    /\ runs' = [runs EXCEPT ![current_job[w].value.id] = Append(@, w)]
    /\ UNCHANGED <<sender, receiver_lock, execute_result, submitted, dequeued, teardown,
                   join_index, at_drop, takes, sent, router_vars, match_vars, parse_vars, served, register_vars, format_vars, conn_vars, handled>>

\* WebServer::listen, one iteration: the stream of the accepted connection
\* is moved into a job that calls WebServer::handle_request on it, and the
\* job is submitted with execute; a job that no worker can receive is
\* dropped, and its stream with it
AcceptOf(inputs) ==
    /\ ProcessRuns
    /\ serving
    /\ teardown = "idle"
    /\ submitted < MaxConnections
    /\ \E input \in inputs :
          LET job == [id |-> submitted + 1, kind |-> "connection", input |-> input]
          IN /\ queue' = IF ReceiverAlive(worker_state) THEN Append(queue, job) ELSE queue
             /\ connections' = [connections EXCEPT ![submitted + 1] =
                    IF ReceiverAlive(worker_state)
                    THEN [@ EXCEPT !.pc = "reading", !.input = input, !.open = TRUE]
                    ELSE [@ EXCEPT !.pc = "closed", !.input = input,
                                   !.events = Append(@, "close")]]
    /\ sent' = IF ReceiverAlive(worker_state) THEN sent \cup {submitted + 1} ELSE sent
    /\ submitted' = submitted + 1
    /\ execute_result' = IF sender THEN Some("Ok") ELSE Some("SendError")
    /\ UNCHANGED <<sender, receiver_lock, worker_state, current_job, dequeued, finished,
                   teardown, join_index, at_drop, takes, runs, router_vars, match_vars,
                   parse_vars, served, register_vars, format_vars, handled>>
Accept == AcceptOf(ServeInputs)

\* WebServer::listen, one item of listener.incoming(), with the pool left
\* out: the stream of a new connection is moved into the job that calls
\* handle_request on it, and the job steps as if a worker of its own had
\* received it
ConnAcceptOf(c, inputs) ==
    /\ ProcessRuns
    /\ serving
    /\ connections[c].pc = "pending"
    /\ \E input \in inputs :
          connections' = [connections EXCEPT ![c] =
                             [@ EXCEPT !.pc = "reading", !.input = input, !.open = TRUE]]
    /\ UNCHANGED <<router_vars, match_vars, pool_vars, parse_vars, served, register_vars,
                   format_vars, handled>>

ConnAccept(c) == ConnAcceptOf(c, ConnectionInputs)

\* handle_request, the block that builds request_vector: the lines up to
\* the first empty one and the announced body are read; a failed read or
\* a Content-Length that is no number returns the error; a body of more
\* than isize::MAX bytes panics, and the thread starts to unwind; a body
\* the allocator does not serve aborts the process, and the system closes
\* every connection the process had
ConnRead(c) ==
    /\ ProcessRuns
    /\ connections[c].pc = "reading"
    /\ LET read == ReadRequestVector(StreamOf(connections[c].input),
                                     connections[c].input.fail_at,
                                     connections[c].input.memory)
       IN connections' =
             IF read = ReadAbort
             THEN [d \in Connections |->
                     IF d = c
                     THEN [connections[d] EXCEPT !.pc = "aborted", !.open = FALSE,
                                                 !.result = ReadAbort.error,
                                                 !.events = Append(@, "read")]
                     ELSE [connections[d] EXCEPT !.open = FALSE]]
             ELSE [connections EXCEPT ![c] =
                     IF read.ok
                     THEN [@ EXCEPT !.pc = "parsing", !.vector = read.vector,
                                    !.events = Append(@, "read")]
                     ELSE IF read = ReadPanic
                          THEN [@ EXCEPT !.pc = "unwinding", !.result = ReadPanic.error,
                                         !.events = Append(@, "read")]
                          ELSE [@ EXCEPT !.pc = "returning", !.result = read.error,
                                         !.events = Append(@, "read")]]
    /\ UNCHANGED <<router_vars, match_vars, pool_vars, parse_vars, served, register_vars,
                   format_vars, handled>>

\* handle_request, Request::new on the vector: an Err is returned as
\* RequestParseError
ConnParse(c) ==
    /\ ProcessRuns
    /\ connections[c].pc = "parsing"
    /\ LET parsed_request == RequestNew(connections[c].vector)
       IN connections' = [connections EXCEPT ![c] =
             IF parsed_request.ok
             THEN [@ EXCEPT !.pc = "routing", !.request = Some(parsed_request.request),
                            !.events = Append(@, "parse")]
             ELSE [@ EXCEPT !.pc = "returning", !.result = parsed_request.error,
                            !.events = Append(@, "parse")]]
    /\ UNCHANGED <<router_vars, match_vars, pool_vars, parse_vars, served, register_vars,
                   format_vars, handled>>

\* handle_request, router.handle_request(request) up to the call of the
\* route handler: the middleware chain on a fresh Context, the lookup and
\* the scan; either the router answers itself (400, 404, 405) and its
\* Response is serialized for write_all, or the Context is ready to be
\* moved into the handler
ConnRoute(c) ==
    /\ ProcessRuns
    /\ connections[c].pc = "routing"
    /\ \E order \in Orders(DOMAIN routes) :
          LET chain == ApplyMiddlewares(middlewares, 1,
                                        ContextNew(connections[c].request.value), <<>>)
              res == RouterHandleRequest(routes, order, chain.context)
          IN IF res.calls = <<>>
             THEN \E text \in SerializedForms(res.response) :
                     connections' = [connections EXCEPT ![c] =
                        [@ EXCEPT !.pc = "writing", !.answer = text, !.calls = chain.calls,
                                  !.events = Append(@, "route")]]
             ELSE connections' = [connections EXCEPT ![c] =
                     [@ EXCEPT !.pc = "handling", !.pending = Some(res.calls[1]),
                               !.calls = chain.calls]]
    /\ UNCHANGED <<router_vars, match_vars, pool_vars, parse_vars, served, register_vars,
                   format_vars, handled>>

\* a faulty call that hands the handler the Context built last for any
\* connection whose handler has not been called yet
ConnHandleSharedContext(c) ==
    /\ ProcessRuns
    /\ connections[c].pc = "handling"
    /\ \E d \in Connections :
          /\ connections[d].pc = "handling"
          /\ \E text \in SerializedForms(HandlerFunc(connections[c].pending.value.id,
                                                     connections[d].pending.value.context)) :
                connections' = [connections EXCEPT ![c] =
                   [@ EXCEPT !.pc = "writing", !.answer = text, !.pending = None,
                             !.calls = Append(@, [connections[c].pending.value EXCEPT
                                                    !.context = connections[d].pending.value.context]),
                             !.events = Append(@, "route")]]
    /\ UNCHANGED <<router_vars, match_vars, pool_vars, parse_vars, served, register_vars,
                   format_vars, handled>>

\* handle_request, the call (route_handler.handler_func)(context) inside
\* router.handle_request and to_string on the Response it returns
ConnHandle(c) ==
    /\ ProcessRuns
    /\ connections[c].pc = "handling"
    /\ \E text \in SerializedForms(HandlerFunc(connections[c].pending.value.id,
                                               connections[c].pending.value.context)) :
          connections' = [connections EXCEPT ![c] =
             [@ EXCEPT !.pc = "writing", !.answer = text, !.pending = None,
                       !.calls = Append(@, connections[c].pending.value),
                       !.events = Append(@, "route")]]
    /\ UNCHANGED <<router_vars, match_vars, pool_vars, parse_vars, served, register_vars,
                   format_vars, handled>>

\* handle_request, stream.write_all: the whole text reaches the peer, or
\* the write fails after the bytes the peer took and the io error is
\* returned
ConnWrite(c) ==
    /\ ProcessRuns
    /\ connections[c].pc = "writing"
    /\ LET wrote == WriteAll(connections[c].answer, connections[c].input.peer_takes)
       IN connections' = [connections EXCEPT ![c] =
             IF wrote.ok
             THEN [@ EXCEPT !.pc = "flushing", !.written = wrote.written,
                            !.events = Append(@, "write")]
             ELSE [@ EXCEPT !.pc = "returning", !.result = "IO",
                            !.written = wrote.written, !.partial = wrote.partial,
                            !.events = Append(@, "write")]]
    /\ UNCHANGED <<router_vars, match_vars, pool_vars, parse_vars, served, register_vars,
                   format_vars, handled>>

\* handle_request, stream.flush(): flush of a TcpStream does nothing and
\* returns Ok, and handle_request returns Ok(())
ConnFlush(c) ==
    /\ ProcessRuns
    /\ connections[c].pc = "flushing"
    /\ connections' = [connections EXCEPT ![c] =
          [@ EXCEPT !.pc = "returning", !.result = "Ok", !.events = Append(@, "flush")]]
    /\ UNCHANGED <<router_vars, match_vars, pool_vars, parse_vars, served, register_vars,
                   format_vars, handled>>

\* a faulty return that keeps the connection and reads from it again
ConnReturnKeepAlive(c) ==
    /\ ProcessRuns
    /\ connections[c].pc = "returning"
    /\ connections' = [connections EXCEPT ![c] =
          [@ EXCEPT !.pc = IF Len(connections[c].events) < 8 THEN "reading" ELSE "closed",
                    !.open = Len(connections[c].events) < 8,
                    !.events = IF Len(connections[c].events) < 8 THEN @
                               ELSE Append(@, "close")]]
    /\ UNCHANGED <<router_vars, match_vars, pool_vars, parse_vars, served, register_vars,
                   format_vars, handled>>

\* handle_request returns on any of its paths, or its thread unwinds: the
\* stream it owns is dropped, which closes the connection; the job's
\* closure logs an Err
ConnReturn(c) ==
    /\ ProcessRuns
    /\ connections[c].pc \in {"returning", "unwinding"}
    /\ connections' = [connections EXCEPT ![c] =
          [@ EXCEPT !.pc = "closed", !.open = FALSE, !.events = Append(@, "close")]]
    /\ UNCHANGED <<router_vars, match_vars, pool_vars, parse_vars, served, register_vars,
                   format_vars, handled>>

\* worker w has received the job of connection c and runs it
Serves(w, c) ==
    /\ worker_state[w] = "running"
    /\ current_job[w].value.kind = "connection"
    /\ current_job[w].value.id = c

\* job() for a connection, the steps of WebServer::handle_request taken on
\* the worker that received the job
ServeRead(w) == \E c \in Connections : Serves(w, c) /\ ConnRead(c)
ServeParse(w) == \E c \in Connections : Serves(w, c) /\ ConnParse(c)
ServeRoute(w) == \E c \in Connections : Serves(w, c) /\ ConnRoute(c)
ServeHandle(w) == \E c \in Connections : Serves(w, c) /\ ConnHandle(c)
ServeWrite(w) == \E c \in Connections : Serves(w, c) /\ ConnWrite(c)
ServeFlush(w) == \E c \in Connections : Serves(w, c) /\ ConnFlush(c)

\* job() for a connection, its end: handle_request returns and drops the
\* stream, the closure logs an Err and returns, and the worker loops; or
\* the panic of handle_request unwinds the worker thread, which drops the
\* stream and the thread's Arc of the receive end, and with the last Arc
\* the jobs of the channel and their streams
ServeReturn(w) ==
    /\ ProcessRuns
    /\ \E c \in Connections :
          /\ Serves(w, c)
          /\ connections[c].pc \in {"returning", "unwinding"}
          /\ LET unwinds == connections[c].pc = "unwinding"
                 state == [worker_state EXCEPT ![w] =
                              IF unwinds THEN "panicked" ELSE "locking"]
                 dropped == IF ReceiverAlive(state) THEN {}
                            ELSE {queue[i].id : i \in {k \in 1..Len(queue) :
                                                         queue[k].kind = "connection"}}
             IN /\ connections' = [d \in Connections |->
                      IF d = c \/ d \in dropped
                      THEN [connections[d] EXCEPT !.pc = "closed", !.open = FALSE,
                                                  !.events = Append(@, "close")]
                      ELSE connections[d]]
                /\ served' = [served EXCEPT ![c] =
                      Some([input |-> connections[c].input, result |-> connections[c].result,
                            written |-> connections[c].written,
                            partial |-> connections[c].partial,
                            calls |-> connections[c].calls, worker |-> w])]
                /\ finished' = IF unwinds THEN finished ELSE finished \cup {c}
                /\ worker_state' = state
                /\ queue' = IF ReceiverAlive(state) THEN queue ELSE <<>>
    /\ runs' = [runs EXCEPT ![current_job[w].value.id] = Append(@, w)]
    /\ current_job' = [current_job EXCEPT ![w] = None]
    /\ UNCHANGED <<sender, receiver_lock, execute_result, submitted, dequeued,
                   teardown, join_index, at_drop, takes, sent, router_vars, match_vars,
                   parse_vars, register_vars, format_vars, handled>>

\* Drop for ThreadPool, first statement: drop(self.sender.take())
BeginDrop ==
    /\ ProcessRuns
    /\ teardown = "idle"
    /\ sender' = FALSE
    /\ teardown' = "joining"
    /\ at_drop' = Some([running |-> {current_job[w].value.id :
                                       w \in {v \in Workers : worker_state[v] = "running"}},
                        queued |-> {queue[i].id : i \in 1..Len(queue)}])
    /\ UNCHANGED <<queue, receiver_lock, worker_state, current_job, execute_result,
                   submitted, dequeued, finished, join_index, takes, runs, sent, router_vars, match_vars, parse_vars, served, register_vars, format_vars, conn_vars, handled>>

\* a faulty join that does not wait for the worker thread
JoinNoWait ==
    /\ ProcessRuns
    /\ teardown = "joining"
    /\ join_index' = join_index + 1
    /\ teardown' = IF join_index = PoolSize THEN "done" ELSE "joining"
    /\ UNCHANGED <<sender, queue, receiver_lock, worker_state, current_job, execute_result,
                   submitted, dequeued, finished, at_drop, takes, runs, sent, router_vars, match_vars, parse_vars, served, register_vars, format_vars, conn_vars, handled>>

\* Drop for ThreadPool, the loop: thread.join().unwrap() on the next
\* worker returns once that thread has ended; it panics when the thread
\* ended by a panic; after the last worker drop returns
Join ==
    /\ ProcessRuns
    /\ teardown = "joining"
    /\ Exited(join_index)
    /\ IF worker_state[join_index] = "panicked"
       THEN /\ teardown' = "panicked"
            /\ join_index' = join_index
       ELSE /\ teardown' = IF join_index = PoolSize THEN "done" ELSE "joining"
            /\ join_index' = join_index + 1
    /\ UNCHANGED <<sender, queue, receiver_lock, worker_state, current_job, execute_result,
                   submitted, dequeued, finished, at_drop, takes, runs, sent, router_vars, match_vars, parse_vars, served, register_vars, format_vars, conn_vars, handled>>

\* ------------------------------------------------------------------------
\* Specifications
\* ------------------------------------------------------------------------
\* registration of routes and middlewares, then requests
Init == RouterInit /\ MatchIdle /\ PoolInit /\ ParseIdle
Next ==
    \/ AddRoute(RouterPatterns)
    \/ AddMiddleware
    \/ Listen
    \/ HandleRequest(RouterPaths)
    \/ FinishRequest
Spec == Init /\ [][Next]_vars

\* registration of routes, then requests with every bounded query text
QueryNext ==
    \/ AddRoute(QueryPatterns)
    \/ Listen
    \/ HandleRequest(QueryPaths)
    \/ FinishRequest
SpecQuery == Init /\ [][QueryNext]_vars

\* match_dynamic_route on every bounded pair of texts
MatchSpecInit == RouterInit /\ MatchInit /\ PoolInit /\ ParseIdle
MatchNext == MatchDynamicRoute
SpecMatch == MatchSpecInit /\ [][MatchNext]_vars

\* the pool: the acceptor submits jobs, the workers run, the pool is dropped
PoolNext ==
    \/ Execute
    \/ \E w \in Workers : Lock(w)
    \/ \E w \in Workers : Receive(w)
    \/ \E w \in Workers : RunJob(w)
    \/ BeginDrop
    \/ Join
SpecPool == Init /\ [][PoolNext]_vars

\* the pool under a scheduler that lets every thread that can step do so:
\* a worker that can take the free lock, a worker in recv with something
\* to receive, a job that returns or panics, and the joining thread
PoolFairness ==
    /\ \A w \in Workers : WF_vars(Lock(w)) /\ WF_vars(Receive(w)) /\ WF_vars(RunJob(w))
    /\ WF_vars(Join)
SpecPoolFair == Init /\ [][PoolNext]_vars /\ PoolFairness

\* the server after its registrations and listen: a route table built with
\* WebRouter::add, a middleware list, then connections handed to the pool
\* and served by the workers; the serving exploration starts with no
\* route and no middleware, or with a route and a middleware; the handler
\* of the pooled server's GET route sets two cookies
ServeRoutes ==
    { EmptyMap,
      RouterAdd(EmptyMap, <<"/", "a">>, "GET", "h1"),
      RouterAdd(EmptyMap, <<"/", "a">>, "POST", "h2") }
ServeMiddlewares == { <<>>, <<"A">> }
ServeSpecInit ==
    /\ routes \in ServeRoutes
    /\ middlewares \in ServeMiddlewares
    /\ serving = TRUE
    /\ registrations = Cardinality(DOMAIN routes)
    /\ request = None
    /\ response = None
    /\ calls = <<>>
    /\ MatchIdle /\ PoolInit /\ ParseIdle
ServeConfigurations ==
    { [routes |-> EmptyMap, middlewares |-> <<>>],
      [routes |-> RouterAdd(EmptyMap, <<"/", "a">>, "GET", "hcookie"), middlewares |-> <<"A">>] }
PoolServeSpecInit ==
    /\ \E configuration \in ServeConfigurations :
          /\ routes = configuration.routes
          /\ middlewares = configuration.middlewares
    /\ serving = TRUE
    /\ registrations = Cardinality(DOMAIN routes)
    /\ request = None
    /\ response = None
    /\ calls = <<>>
    /\ MatchIdle /\ PoolInit /\ ParseIdle
ServeNext ==
    \/ Accept
    \/ \E w \in Workers : Lock(w)
    \/ \E w \in Workers : Receive(w)
    \/ \E w \in Workers : ServeRead(w)
    \/ \E w \in Workers : ServeParse(w)
    \/ \E w \in Workers : ServeRoute(w)
    \/ \E w \in Workers : ServeHandle(w)
    \/ \E w \in Workers : ServeWrite(w)
    \/ \E w \in Workers : ServeFlush(w)
    \/ \E w \in Workers : ServeReturn(w)
SpecServe == PoolServeSpecInit /\ [][ServeNext]_vars

\* the same server with no route, with a GET route whose handler sets two
\* cookies or with a POST route for "/a", its clients sending method
\* tokens that name no method
MethodConfigurations ==
    { [routes |-> EmptyMap, middlewares |-> <<>>],
      [routes |-> RouterAdd(EmptyMap, <<"/", "a">>, "GET", "hcookie"), middlewares |-> <<"A">>],
      [routes |-> RouterAdd(EmptyMap, <<"/", "a">>, "POST", "h2"), middlewares |-> <<"A">>] }
MethodSpecInit ==
    /\ \E configuration \in MethodConfigurations :
          /\ routes = configuration.routes
          /\ middlewares = configuration.middlewares
    /\ serving = TRUE
    /\ registrations = Cardinality(DOMAIN routes)
    /\ request = None
    /\ response = None
    /\ calls = <<>>
    /\ MatchIdle /\ PoolInit /\ ParseIdle
MethodNext ==
    \/ AcceptOf(MethodInputs)
    \/ \E w \in Workers : Lock(w)
    \/ \E w \in Workers : Receive(w)
    \/ \E w \in Workers : ServeRead(w)
    \/ \E w \in Workers : ServeParse(w)
    \/ \E w \in Workers : ServeRoute(w)
    \/ \E w \in Workers : ServeHandle(w)
    \/ \E w \in Workers : ServeWrite(w)
    \/ \E w \in Workers : ServeFlush(w)
    \/ \E w \in Workers : ServeReturn(w)
SpecMethod == MethodSpecInit /\ [][MethodNext]_vars

\* the server after its registrations and listen, its connections served
\* step by step through WebServer::handle_request, each on its own thread
ConnNext ==
    \/ \E c \in Connections : ConnAccept(c)
    \/ \E c \in Connections : ConnRead(c)
    \/ \E c \in Connections : ConnParse(c)
    \/ \E c \in Connections : ConnRoute(c)
    \/ \E c \in Connections : ConnHandle(c)
    \/ \E c \in Connections : ConnWrite(c)
    \/ \E c \in Connections : ConnFlush(c)
    \/ \E c \in Connections : ConnReturn(c)
SpecConnection == ServeSpecInit /\ [][ConnNext]_vars

\* registration, then one request after another, the answered ones counted
SequencePatterns == { <<"/", "a">>, <<"/", ":", "x">> }
SequencePaths ==
    { <<"/", "a">>, <<"/", "b">>, <<"/", "b", "?", "=", "b">>, <<"/", "a", "/", "b">> }
SequenceNext ==
    \/ AddRoute(SequencePatterns)
    \/ AddMiddleware
    \/ Listen
    \/ HandleRequest(SequencePaths)
    \/ FinishAndCount
SpecSequence == Init /\ [][SequenceNext]_vars

\* a server with one dynamic route, its connections served step by step,
\* each on its own worker thread, by clients whose requests differ
IsolationRoutes == { RouterAdd(EmptyMap, <<"/", ":", "x">>, "GET", "hecho") }
IsolationSpecInit ==
    /\ routes \in IsolationRoutes
    /\ middlewares \in ServeMiddlewares
    /\ serving = TRUE
    /\ registrations = Cardinality(DOMAIN routes)
    /\ request = None
    /\ response = None
    /\ calls = <<>>
    /\ MatchIdle /\ PoolInit /\ ParseIdle
IsolationNext ==
    \/ \E c \in Connections : ConnAcceptOf(c, IsolationInputs)
    \/ \E c \in Connections : ConnRead(c)
    \/ \E c \in Connections : ConnParse(c)
    \/ \E c \in Connections : ConnRoute(c)
    \/ \E c \in Connections : ConnHandle(c)
    \/ \E c \in Connections : ConnWrite(c)
    \/ \E c \in Connections : ConnFlush(c)
    \/ \E c \in Connections : ConnReturn(c)
SpecIsolation == IsolationSpecInit /\ [][IsolationNext]_vars

\* format_path_by_slashes on every bounded path
FormatAlphabet == {"/", "?", "a", " ", "U+00E9"}
FormatSpecInit ==
    /\ RouterInit /\ MatchIdle /\ PoolInit
    /\ conn_input = [lines |-> <<>>, trailer |-> <<>>, fail_at |-> 0, memory |-> AmpleMemory]
    /\ parsed = None
    /\ direct = None
    /\ wire_response = ResponseDefault
    /\ wire_text = None
    /\ registered = None
    /\ path_given \in StringsUpTo(FormatAlphabet, MaxFormatLen)
    /\ path_formatted = None
FormatPath ==
    /\ path_formatted = None
    /\ path_formatted' = Some(format_path_by_slashes(path_given))
    /\ UNCHANGED <<path_given, registered, router_vars, match_vars, pool_vars, parse_vars,
                   served, conn_vars, handled>>
FormatNext == FormatPath
SpecFormat == FormatSpecInit /\ [][FormatNext]_vars

\* a server with the static route and user routes, one of whose handlers
\* answers 500 itself and one of whose handlers redirects
StaticRoots == { <<"/", "s">> }
StaticUserPatterns == { <<"/", "s", "/", "a">>, <<"/", "u">> }
StaticUserHandlers == {"h1", "h500", "h302"}
StaticPaths ==
    { <<"/", "s", "/", "a">>, <<"/", "s", "/", "b">>, <<"/", "s", "/", "c">>, <<"/", "s", "/">>,
      <<"/", "s", "/", ".", ".">>,
      <<"/", "s", "/", ":">> \o FilenameParam, <<"/", "u">>, <<"/", "s">> }
StaticNext ==
    \/ ServeStatic(StaticRoots)
    \/ AddRouteOf(StaticUserPatterns, StaticUserHandlers)
    \/ Listen
    \/ HandleRequest(StaticPaths)
    \/ FinishRequest
SpecStatic == Init /\ [][StaticNext]_vars

\* registrations of routes and middlewares on a router with one owner
RegisterPatterns == { <<"/", "a">>, <<"/", ":", "x">> }
RegisterNext ==
    \/ RegisterRoute(RegisterPatterns)
    \/ RegisterMiddleware
SpecRegister == Init /\ [][RegisterNext]_vars

\* registrations at any time: before listen, and while connections that
\* hold a clone of the router are queued or served
SharedPatterns == { <<"/", "a">> }
SharedInputs ==
    { [lines |-> << <<"G", "E", "T", " ", "/", "a", " ", "H", "T", "T", "P", "/", "1", ".", "1">>,
                    <<>> >>,
       trailer |-> <<>>, fail_at |-> 0, memory |-> AmpleMemory, peer_takes |-> None] }
\* the clients of this exploration make one connection fewer than the
\* listener accepts elsewhere: one connection gives the router its second
\* owner, and the registrations interleave with every step of its job
SharedNext ==
    \/ RegisterRoute(SharedPatterns)
    \/ RegisterMiddleware
    \/ Listen
    \/ (submitted < MaxConnections - 1 /\ AcceptOf(SharedInputs))
    \/ \E w \in Workers : Lock(w)
    \/ \E w \in Workers : Receive(w)
    \/ \E w \in Workers : ServeRead(w)
    \/ \E w \in Workers : ServeParse(w)
    \/ \E w \in Workers : ServeRoute(w)
    \/ \E w \in Workers : ServeHandle(w)
    \/ \E w \in Workers : ServeWrite(w)
    \/ \E w \in Workers : ServeFlush(w)
    \/ \E w \in Workers : ServeReturn(w)
SpecShared == Init /\ [][SharedNext]_vars

\* the parsing of one connection's input, and Request::new on its lines
ParseSpecInit ==
    /\ RouterInit /\ MatchIdle /\ PoolInit /\ CallsIdle
    /\ conn_input \in ConnInputs
    /\ parsed = None
    /\ direct = None
    /\ wire_response = ResponseDefault
    /\ wire_text = None
ParseNext == ParseConnection \/ CallRequestNew
SpecParse == ParseSpecInit /\ [][ParseNext]_vars

\* Request::new on a request line followed by every bounded list of
\* header texts
HeaderSpecInit ==
    /\ RouterInit /\ MatchIdle /\ PoolInit /\ CallsIdle
    /\ conn_input \in HeaderInputs
    /\ parsed = None
    /\ direct = None
    /\ wire_response = ResponseDefault
    /\ wire_text = None
HeaderNext == CallRequestNew
SpecHeaders == HeaderSpecInit /\ [][HeaderNext]_vars

\* Response::to_string on every bounded Response
SerializeSpecInit ==
    /\ RouterInit /\ MatchIdle /\ PoolInit /\ CallsIdle
    /\ conn_input = [lines |-> <<>>, trailer |-> <<>>, fail_at |-> 0, memory |-> AmpleMemory]
    /\ parsed = None
    /\ direct = None
    /\ wire_response \in SerializeResponses
    /\ wire_text = None
SerializeNext == Serialize
SpecSerialize == SerializeSpecInit /\ [][SerializeNext]_vars

\* ------------------------------------------------------------------------
\* Vocabulary of the properties
\* ------------------------------------------------------------------------
\* the text before the first "?" and the text after it
StripQuery(path) ==
    IF IndexOf(path, "?") = 0 THEN path ELSE SubSeq(path, 1, IndexOf(path, "?") - 1)
QuerySuffix(path) == SubSeq(path, IndexOf(path, "?") + 1, Len(path))
HasQuery(path) == IndexOf(path, "?") # 0

\* the name of a capture segment
CaptureName(segment) == SubSeq(segment, 2, Len(segment))

\* same number of segments and every literal pattern segment equal
DynMatches(path, pattern) ==
    LET r == Split(StripQuery(path), "/")
        t == Split(pattern, "/")
    IN /\ Len(r) = Len(t)
       /\ \A i \in 1..Len(t) : ~StartsWith(t[i], ":") => t[i] = r[i]

\* the handler calls among the calls made for the request
HandlerCalls == SelectSeq(calls, LAMBDA c : c.kind = "handler")
MiddlewareCalls == SelectSeq(calls, LAMBDA c : c.kind = "middleware")

\* the answer has this status number and this body
Answered(number, body) ==
    /\ response # None
    /\ StatusCode(response.value.status_code)[2] = number
    /\ response.value.body = body

\* ------------------------------------------------------------------------
\* C1
\* ------------------------------------------------------------------------
\* C1: a request whose path equals a registered pattern P and whose method
\* M has a handler for P calls the handler registered for (P, M) exactly
\* once, calls no other handler, and is answered with that handler's
\* response.
C1_ExactDispatch ==
    (/\ request # None
     /\ request.value.path \in DOMAIN routes
     /\ request.value.method \in DOMAIN routes[request.value.path])
    => /\ Len(HandlerCalls) = 1
       /\ HandlerCalls[1].id = routes[request.value.path][request.value.method]
       /\ HandlerCalls[1].context.request = request.value
       /\ response = Some(HandlerFunc(routes[request.value.path][request.value.method],
                                      HandlerCalls[1].context))

\* an exact dispatch in a table that holds another handler as well
C1_Witness ==
    /\ request # None
    /\ request.value.path \in DOMAIN routes
    /\ request.value.method \in DOMAIN routes[request.value.path]
    /\ \E p \in DOMAIN routes : \E m \in DOMAIN routes[p] :
          routes[p][m] # routes[request.value.path][request.value.method]
    /\ Len(HandlerCalls) = 1

\* ------------------------------------------------------------------------
\* C2
\* ------------------------------------------------------------------------
\* C2: a request to a registered path whose method has no handler for that
\* path is answered 405 with body "Method Not Allowed", and no handler is
\* called.
C2_MethodNotAllowed ==
    (/\ request # None
     /\ request.value.path \in DOMAIN routes
     /\ request.value.method \notin DOMAIN routes[request.value.path])
    => /\ Answered(405, "Method Not Allowed")
       /\ HandlerCalls = <<>>

\* a 405 although a dynamic pattern with a handler for the method matches
C2_Witness ==
    /\ request # None
    /\ request.value.path \in DOMAIN routes
    /\ request.value.method \notin DOMAIN routes[request.value.path]
    /\ \E p \in DOMAIN routes :
          /\ p # request.value.path
          /\ DynMatches(request.value.path, p)
          /\ request.value.method \in DOMAIN routes[p]
    /\ Answered(405, "Method Not Allowed")

\* ------------------------------------------------------------------------
\* C3
\* ------------------------------------------------------------------------
\* C3: a request whose path equals no registered pattern and is matched by
\* no registered dynamic pattern is answered 404 with body "Not Found", and
\* no handler is called.
C3_NotFound ==
    (/\ request # None
     /\ request.value.path \notin DOMAIN routes
     /\ \A p \in DOMAIN routes : ~DynMatches(request.value.path, p))
    => /\ Answered(404, "Not Found")
       /\ HandlerCalls = <<>>

\* a 404 from a table that has handlers for the request's method
C3_Witness ==
    /\ request # None
    /\ request.value.path \notin DOMAIN routes
    /\ \A p \in DOMAIN routes : ~DynMatches(request.value.path, p)
    /\ \E p \in DOMAIN routes : request.value.method \in DOMAIN routes[p]
    /\ Answered(404, "Not Found")

\* ------------------------------------------------------------------------
\* C4
\* ------------------------------------------------------------------------
\* the capture names of a pattern, and the positions that carry a name
CaptureNames(pattern) ==
    LET t == Split(pattern, "/")
    IN {CaptureName(t[i]) : i \in {j \in 1..Len(t) : StartsWith(t[j], ":")}}
CapturePositions(pattern, name) ==
    LET t == Split(pattern, "/")
    IN {i \in 1..Len(t) : StartsWith(t[i], ":") /\ CaptureName(t[i]) = name}

\* the returned map binds every capture segment's name to the request
\* segment at that segment's own position
BindsEveryCapture(path, pattern, params) ==
    LET r == Split(StripQuery(path), "/")
    IN /\ DOMAIN params = CaptureNames(pattern)
       /\ \A name \in CaptureNames(pattern) :
             \A i \in CapturePositions(pattern, name) : params[name] = r[i]

\* the returned map binds every capture name to the request segment at the
\* last position that carries the name
BindsLastCapture(path, pattern, params) ==
    LET r == Split(StripQuery(path), "/")
        Last(S) == CHOOSE i \in S : \A j \in S : j <= i
    IN /\ DOMAIN params = CaptureNames(pattern)
       /\ \A name \in CaptureNames(pattern) :
             params[name] = r[Last(CapturePositions(pattern, name))]

\* C4 as stated: match_dynamic_route succeeds exactly when the
\* query-stripped path and the pattern have the same number of segments
\* and every literal pattern segment equals the request segment at its
\* position; on success the map binds, for every capture segment, its name
\* to the request segment at that position, and nothing else.
C4_MatchAsStated ==
    matched # None =>
        /\ matched.value.some <=> DynMatches(request_path, route_path)
        /\ matched.value.some =>
              BindsEveryCapture(request_path, route_path, matched.value.value)

\* C4 amended: as above, except that a name carried by several capture
\* segments of the pattern is bound to the request segment at the last of
\* those positions.
C4_MatchLastCaptureWins ==
    matched # None =>
        /\ matched.value.some <=> DynMatches(request_path, route_path)
        /\ matched.value.some =>
              BindsLastCapture(request_path, route_path, matched.value.value)

\* a successful match of a path that has a query text, with two captures
\* of the same name on different request segments
C4_Witness ==
    /\ matched # None
    /\ matched.value.some
    /\ HasQuery(request_path)
    /\ \E name \in CaptureNames(route_path) :
          /\ Cardinality(CapturePositions(route_path, name)) = 2
          /\ \E i, j \in CapturePositions(route_path, name) :
                Split(StripQuery(request_path), "/")[i] # Split(StripQuery(request_path), "/")[j]

\* ------------------------------------------------------------------------
\* C5
\* ------------------------------------------------------------------------
\* a piece of a query text split once on its first "="
KeyOf(piece) == IF IndexOf(piece, "=") = 0 THEN piece ELSE SubSeq(piece, 1, IndexOf(piece, "=") - 1)
ValueOf(piece) == IF IndexOf(piece, "=") = 0 THEN <<>> ELSE SubSeq(piece, IndexOf(piece, "=") + 1, Len(piece))

\* the map a query text stands for: one entry per piece with a key, a
\* later piece with the same key replacing an earlier one
QueryMapOf(query) ==
    LET pieces == Split(query, "&")
        keyed == {i \in 1..Len(pieces) : Len(KeyOf(pieces[i])) > 0}
        Last(S) == CHOOSE i \in S : \A j \in S : j <= i
    IN [k \in {KeyOf(pieces[i]) : i \in keyed} |->
           ValueOf(pieces[Last({i \in keyed : KeyOf(pieces[i]) = k})])]

\* the request was routed to a handler through the dynamic branch
DynamicallyRouted ==
    /\ request # None
    /\ request.value.path \notin DOMAIN routes
    /\ \E p \in DOMAIN routes :
          DynMatches(request.value.path, p) /\ request.value.method \in DOMAIN routes[p]

\* C5 as stated: when a request whose path has a "?" query suffix is
\* routed to a handler, the handler's Context has a query-parameter map
\* with exactly one entry key -> value for each key=value piece of the
\* "&"-separated query, a later piece replacing an earlier one with the
\* same key, the text taken literally.
C5_QueryMapAsStated ==
    (/\ request # None
     /\ HasQuery(request.value.path)
     /\ HandlerCalls # <<>>)
    => HandlerCalls[1].context.query_params = QueryMapOf(QuerySuffix(request.value.path))

\* ------------------------------------------------------------------------
\* C6
\* ------------------------------------------------------------------------
\* C6 as stated: when a dynamically routed request path has a query suffix
\* in which some "&"-separated piece has an empty key, the answer is 400
\* with body "Bad Request" and no handler is called.
C6_EmptyKeyAsStated ==
    (/\ DynamicallyRouted
     /\ HasQuery(request.value.path)
     /\ \E i \in 1..Len(Split(QuerySuffix(request.value.path), "&")) :
           KeyOf(Split(QuerySuffix(request.value.path), "&")[i]) = <<>>)
    => /\ Answered(400, "Bad Request")
       /\ HandlerCalls = <<>>

\* ------------------------------------------------------------------------
\* C7
\* ------------------------------------------------------------------------
\* the context a handler got, without what the router added for the route
WithoutRouteData(context) ==
    [context EXCEPT !.params = EmptyMap, !.query_params = EmptyMap]

\* C7: for every request, middlewares registered in the order A then B
\* run in that order, B gets the Context as A returned it, and all of them
\* have run before the route handler, which gets the Context as the whole
\* chain returned it.
C7_MiddlewareOrder ==
    request # None =>
        LET n == Len(middlewares)
        IN /\ Len(calls) >= n
           /\ \A i \in 1..n :
                 /\ calls[i].kind = "middleware"
                 /\ calls[i].id = middlewares[i]
                 /\ calls[i].context =
                       IF i = 1 THEN ContextNew(request.value)
                       ELSE MiddlewareFunc(middlewares[i-1], calls[i-1].context)
           /\ \A k \in (n+1)..Len(calls) :
                 /\ calls[k].kind = "handler"
                 /\ WithoutRouteData(calls[k].context) =
                       IF n = 0 THEN ContextNew(request.value)
                       ELSE MiddlewareFunc(middlewares[n], calls[n].context)

\* two different middlewares have run, then a handler that saw both marks
C7_Witness ==
    /\ request # None
    /\ Len(middlewares) = 2
    /\ middlewares[1] # middlewares[2]
    /\ Len(calls) = 3
    /\ calls[3].kind = "handler"
    /\ calls[2].context.response.headers["X-Trace"] = <<middlewares[1]>>
    /\ calls[3].context.response.headers["X-Trace"] = middlewares

\* ------------------------------------------------------------------------
\* C8
\* ------------------------------------------------------------------------
\* C8: every registered middleware is applied exactly once to every
\* request, before matching and whatever the outcome of matching
\* (dispatch, 400, 404 or 405); no middleware skips a later one or keeps
\* the router from answering.
C8_MiddlewareAlways ==
    request # None =>
        /\ Len(MiddlewareCalls) = Len(middlewares)
        /\ \A i \in 1..Len(middlewares) : MiddlewareCalls[i].id = middlewares[i]
        /\ \A i, j \in 1..Len(calls) :
              (calls[i].kind = "middleware" /\ calls[j].kind = "handler") => i < j
        /\ response # None
        /\ \/ Len(HandlerCalls) = 1 /\ response.value.body = HandlerCalls[1].id
           \/ HandlerCalls = <<>> /\ Answered(400, "Bad Request")
           \/ HandlerCalls = <<>> /\ Answered(404, "Not Found")
           \/ HandlerCalls = <<>> /\ Answered(405, "Method Not Allowed")

\* two middlewares have run for a request the router answered itself
C8_Witness ==
    /\ request # None
    /\ Len(middlewares) = 2
    /\ Len(MiddlewareCalls) = 2
    /\ HandlerCalls = <<>>
    /\ Answered(400, "Bad Request")

\* ------------------------------------------------------------------------
\* C9
\* ------------------------------------------------------------------------
\* every job in the pool terminates: none that is queued or executing
\* blocks for ever
EveryJobTerminates ==
    /\ \A i \in 1..Len(queue) : queue[i].kind # "blocks"
    /\ \A w \in Workers :
          worker_state[w] = "running" => current_job[w].value.kind # "blocks"

\* C9 as stated: once the send side has been dropped, and provided every
\* job that is executing or still queued terminates (it returns or it
\* panics, none blocks for ever), every worker thread eventually ends and
\* the teardown's join of every worker returns, whatever jobs were in
\* flight. A job that panics violates it: the join of its worker panics
\* in drop, and the workers after it are never joined.
C9_ShutdownCompletesAsStated ==
    (teardown = "joining" /\ EveryJobTerminates)
        ~> (teardown = "done" /\ \A w \in Workers : Exited(w))

\* ------------------------------------------------------------------------
\* C10
\* ------------------------------------------------------------------------
\* C10: teardown never completes while a job a worker has dequeued is
\* still executing: whenever teardown has returned, every dequeued job has
\* finished.
C10_TeardownWaitsForJobs ==
    teardown = "done" =>
        /\ dequeued \subseteq finished
        /\ \A w \in Workers : worker_state[w] # "running"

\* teardown has returned, and a job was executing when it began
C10_Witness ==
    /\ teardown = "done"
    /\ at_drop # None
    /\ at_drop.value.running # {}
    /\ at_drop.value.running \subseteq finished

\* ------------------------------------------------------------------------
\* C11
\* ------------------------------------------------------------------------
\* job j is in the hands of worker w, which is executing it
Holds(w, j) ==
    /\ worker_state[w] = "running"
    /\ current_job[w] # None
    /\ current_job[w].value.id = j

\* C11: under any interleaving of the acceptor and the workers, no job is
\* dequeued by two workers, no job is run twice or by a worker other than
\* the one that dequeued it, and every dequeued job is executed: it is
\* being executed by the worker that dequeued it, or its execution by that
\* worker has come to an end.
C11_AtMostOnce ==
    \A j \in 1..MaxJobs :
        /\ Len(takes[j]) <= 1
        /\ Len(runs[j]) <= 1
        /\ runs[j] # <<>> => runs[j] = takes[j]
        /\ (\E i \in 1..Len(queue) : queue[i].id = j) => takes[j] = <<>>
        /\ \A w \in Workers : Holds(w, j) => (takes[j] = <<w>> /\ runs[j] = <<>>)
        /\ takes[j] # <<>> => (runs[j] = takes[j] \/ Holds(takes[j][1], j))
        /\ j \in dequeued <=> takes[j] # <<>>

\* two jobs were run to their end by different workers while a third job
\* is being executed
C11_Witness ==
    /\ \E j, k \in 1..MaxJobs :
          /\ j # k
          /\ runs[j] # <<>> /\ runs[k] # <<>>
          /\ runs[j] # runs[k]
    /\ \E w \in Workers, j \in 1..MaxJobs : Holds(w, j) /\ runs[j] = <<>>

\* ------------------------------------------------------------------------
\* C12
\* ------------------------------------------------------------------------
\* C12 as stated: ThreadPool::execute returns Ok only if the job was sent
\* into the channel; when the job cannot be sent it returns a SendError,
\* and the job is neither queued nor taken by a worker.
C12_ExecuteAsStated ==
    execute_result # None =>
        /\ execute_result = Some("Ok") => submitted \in sent
        /\ submitted \notin sent =>
              /\ execute_result = Some("SendError")
              /\ \A i \in 1..Len(queue) : queue[i].id # submitted
              /\ takes[submitted] = <<>>

\* ------------------------------------------------------------------------
\* C13
\* ------------------------------------------------------------------------
\* C13 as stated: a job that is still queued at the moment the send side
\* is dropped is never executed; after shutdown begins no worker takes a
\* job that was not already dequeued.
C13_QueuedJobsLostAsStated ==
    at_drop # None => \A j \in at_drop.value.queued : takes[j] = <<>>

\* C13 amended: a job still queued when the send side is dropped can
\* still be executed: recv goes on returning queued jobs, and a worker
\* leaves its loop through a failed receive only when the channel is
\* empty and the send side is gone; such a job waits in the channel or
\* has been taken by a worker, unless every worker thread has ended by a
\* panic, which drops the channel with the jobs in it.
C13_QueuedJobsDrained ==
    /\ \A w \in Workers : worker_state[w] = "terminated" => (~sender /\ queue = <<>>)
    /\ at_drop # None =>
          \A j \in at_drop.value.queued :
             \/ \E i \in 1..Len(queue) : queue[i].id = j
             \/ takes[j] # <<>>
             \/ \A w \in Workers : worker_state[w] = "panicked"

\* teardown has returned after a drop that found two jobs queued, and both
\* have been run since
C13_Witness ==
    /\ teardown = "done"
    /\ Cardinality(at_drop.value.queued) >= 2
    /\ \A j \in at_drop.value.queued : runs[j] # <<>>

\* ------------------------------------------------------------------------
\* C14
\* ------------------------------------------------------------------------
\* C14: submitting a job never blocks the acceptor: in every reachable
\* state in which the pool has not been dropped and the acceptor has a
\* connection to hand over, whatever the workers are doing and however
\* many jobs are queued, the submission can take place at once; the queue
\* has no capacity bound.
C14_SubmitNeverBlocks ==
    (teardown = "idle" /\ submitted < MaxJobs) => ENABLED Execute

\* every worker is busy with a job that never returns, and the acceptor,
\* whose earlier submissions returned Ok, has one more connection to hand
\* over
C14_Witness ==
    /\ teardown = "idle"
    /\ submitted < MaxJobs
    /\ \A w \in Workers :
          worker_state[w] = "running" /\ current_job[w].value.kind = "blocks"
    /\ execute_result = Some("Ok")

\* ------------------------------------------------------------------------
\* Vocabulary of the parsing properties
\* ------------------------------------------------------------------------
\* the tokens of a line: each starts at a non-whitespace character that
\* follows whitespace or starts the line, and runs to the next whitespace
TokenStarts(line) ==
    {i \in 1..Len(line) : line[i] \notin Whitespace /\ (i = 1 \/ line[i-1] \in Whitespace)}
TokenAt(line, i) ==
    LET end == CHOOSE j \in i..Len(line) :
                  /\ \A k \in i..j : line[k] \notin Whitespace
                  /\ (j = Len(line) \/ line[j+1] \in Whitespace)
    IN SubSeq(line, i, end)
NthToken(line, n) ==
    TokenAt(line, CHOOSE i \in TokenStarts(line) :
                     Cardinality({k \in TokenStarts(line) : k < i}) = n - 1)

\* the position of the blank line that ends the header block, 0 when the
\* client sent none
BlankLineAt(lines) ==
    IF \E i \in 2..Len(lines) : lines[i] = <<>>
    THEN CHOOSE i \in 2..Len(lines) : lines[i] = <<>> /\ \A j \in 2..(i-1) : lines[j] # <<>>
    ELSE 0

\* the positions of the header lines: after the request line, before the
\* blank line
HeaderPositions(lines) ==
    IF BlankLineAt(lines) = 0 THEN 2..Len(lines) ELSE 2..(BlankLineAt(lines) - 1)

\* a header line's name and value: the trimmed text before and after the
\* first ":"
HeaderName(line) == Trim(SubSeq(line, 1, IndexOf(line, ":") - 1))
HeaderValue(line) == Trim(SubSeq(line, IndexOf(line, ":") + 1, Len(line)))
ContentLengthName == <<"C", "o", "n", "t", "e", "n", "t", "-", "L", "e", "n", "g", "t", "h">>
IsPositiveInteger(text) ==
    /\ Len(text) > 0
    /\ \A i \in 1..Len(text) : IsDigit(text[i])
    /\ \E i \in 1..Len(text) : text[i] # "0"

\* the positions of the Content-Length header lines
ContentLengthPositions(lines) ==
    {i \in HeaderPositions(lines) :
        IndexOf(lines[i], ":") # 0 /\ HeaderName(lines[i]) = ContentLengthName}

\* the bytes the client sent after the blank line
AfterBlankLine(input) ==
    WireLines(SubSeq(input.lines, BlankLineAt(input.lines) + 1, Len(input.lines)))
        \o input.trailer

\* ------------------------------------------------------------------------
\* C15
\* ------------------------------------------------------------------------
\* the client sent a request line of three tokens or more and no read fails
CleanlySent ==
    /\ conn_input.fail_at = 0
    /\ Len(conn_input.lines) > 0
    /\ Cardinality(TokenStarts(conn_input.lines[1])) >= 3

\* C15 as stated: parsing an input that has a Content-Length header with a
\* positive n, followed by the blank line and at least n bytes, yields a
\* Request whose body is Some of exactly the first n bytes after the blank
\* line; parsing an input with no Content-Length header yields body = None.
C15_BodyAsStated ==
    (parsed # None /\ CleanlySent) =>
        LET lines == conn_input.lines
            at == ContentLengthPositions(lines)
            value == HeaderValue(lines[CHOOSE i \in at : TRUE])
            n == DigitsValue(value, 0)
            announced ==
                /\ Cardinality(at) = 1
                /\ IsPositiveInteger(value)
                /\ BlankLineAt(lines) # 0
                /\ ByteLength(AfterBlankLine(conn_input)) >= n
        IN /\ announced =>
                 /\ parsed.value.ok
                 /\ \E k \in 0..Len(AfterBlankLine(conn_input)) :
                       /\ ByteLength(SubSeq(AfterBlankLine(conn_input), 1, k)) = n
                       /\ parsed.value.request.body
                             = Some(SubSeq(AfterBlankLine(conn_input), 1, k))
           /\ (at = {} /\ parsed.value.ok) => parsed.value.request.body = None

\* ------------------------------------------------------------------------
\* C16
\* ------------------------------------------------------------------------
\* C16 as stated: for every successfully parsed request, the body is
\* present if and only if the parsed headers contain a Content-Length
\* header whose value is a positive integer.
C16_BodyIffContentLengthAsStated ==
    (parsed # None /\ parsed.value.ok) =>
        (parsed.value.request.body.some
            <=> /\ ContentLengthName \in DOMAIN parsed.value.request.headers
                /\ IsPositiveInteger(parsed.value.request.headers[ContentLengthName]))

\* ------------------------------------------------------------------------
\* C17
\* ------------------------------------------------------------------------
\* C17: Request::new fails with EmptyRequestError exactly when its input
\* has no lines at all, fails with InvalidRequestLineError exactly when the
\* first line has fewer than three whitespace-separated tokens, and
\* succeeds in every other case, with method, path and version taken from
\* the first three tokens (a token that names no method standing for GET).
C17_RequestLine ==
    direct # None =>
        LET lines == conn_input.lines
            result == direct.value
        IN /\ (~result.ok /\ result.error = "EmptyRequestError") <=> Len(lines) = 0
           /\ (~result.ok /\ result.error = "InvalidRequestLineError")
                 <=> (Len(lines) > 0 /\ Cardinality(TokenStarts(lines[1])) < 3)
           /\ (Len(lines) > 0 /\ Cardinality(TokenStarts(lines[1])) >= 3) =>
                 /\ result.ok
                 /\ result.request.method = MethodOfToken(NthToken(lines[1], 1))
                 /\ result.request.path = NthToken(lines[1], 2)
                 /\ result.request.version = NthToken(lines[1], 3)

\* a request line of more than three tokens, separated by runs of spaces,
\* a tab and a form feed, was parsed; its method token names no method
C17_Witness ==
    /\ direct # None
    /\ direct.value.ok
    /\ Cardinality(TokenStarts(conn_input.lines[1])) > 3
    /\ NthToken(conn_input.lines[1], 1) = <<"P", "U", "T">>
    /\ direct.value.request.method = "GET"
    /\ direct.value.request.path = <<"/", "b">>

\* ------------------------------------------------------------------------
\* Vocabulary of the serialization properties
\* ------------------------------------------------------------------------
\* where the first "\r\n" of a text starts, 0 when it has none
CrlfAt(text) ==
    LET at == {i \in 1..(Len(text) - 1) : text[i] = "\r" /\ text[i+1] = "\n"}
    IN IF at = {} THEN 0 ELSE CHOOSE i \in at : \A j \in at : i <= j

\* the "\r\n"-ended lines of a text up to its first empty line, and the
\* text after that empty line
RECURSIVE CutHead(_, _)
CutHead(text, lines) ==
    LET i == CrlfAt(text)
    IN IF i = 0 THEN [complete |-> FALSE, lines |-> lines, rest |-> text]
       ELSE IF i = 1 THEN [complete |-> TRUE, lines |-> lines,
                           rest |-> SubSeq(text, 3, Len(text))]
       ELSE CutHead(SubSeq(text, i + 2, Len(text)), Append(lines, SubSeq(text, 1, i - 1)))

\* the status lines of the statuses that are serialized
ExpectedStatusLine(status) ==
    CASE status = "OK" -> <<"H", "T", "T", "P", "/", "1", ".", "1", " ", "2", "0", "0", " ", "O", "K">>
      [] status = "NotFound" -> <<"H", "T", "T", "P", "/", "1", ".", "1", " ", "4", "0", "4", " ", "N", "o", "t", " ", "F", "o", "u", "n", "d">>

\* the number of bytes of a text, and the decimal numeral of a number
BytesOf(text) == Len(text) + Cardinality({i \in 1..Len(text) : text[i] = "U+00E9"})
NumeralOf(n) ==
    CHOOSE d \in StringsUpTo({DigitChars[k] : k \in 1..10}, 2) :
        /\ Len(d) > 0
        /\ DigitsValue(d, 0) = n
        /\ (Len(d) = 1 \/ d[1] # "0")

\* the Content-Length line that announces the body of a Response
ExpectedContentLength(res) == ContentLengthPrefix \o NumeralOf(BytesOf(res.body))

\* ------------------------------------------------------------------------
\* C19
\* ------------------------------------------------------------------------
\* C19: the serialized text of a Response is the status line
\* "HTTP/1.1 <code> <reason>", then "Content-Length: <byte length of the
\* body>", then one "Key: Value" line per header and one "Set-Cookie:" line
\* per cookie, every line ended by "\r\n", then an empty line, then the
\* body verbatim; so the text ends with "\r\n\r\n" followed by the body.
C19_Serialization ==
    wire_text # None =>
        LET r == wire_response
            text == wire_text.value
            cut == CutHead(text, <<>>)
            nh == Cardinality(DOMAIN r.headers)
            nc == Cardinality(DOMAIN r.cookies)
            tail == <<"\r", "\n", "\r", "\n">> \o r.body
        IN /\ cut.complete
           /\ Len(cut.lines) = 2 + nh + nc
           /\ cut.lines[1] = ExpectedStatusLine(r.status_code)
           /\ cut.lines[2] = ExpectedContentLength(r)
           /\ {cut.lines[i] : i \in 3..(2 + nh)}
                 = {k \o <<":", " ">> \o r.headers[k] : k \in DOMAIN r.headers}
           /\ \A i \in (3 + nh)..Len(cut.lines) :
                 \E n \in DOMAIN r.cookies :
                    StripPrefix(cut.lines[i],
                                <<"S", "e", "t", "-", "C", "o", "o", "k", "i", "e", ":", " ">> \o r.cookies[n].name \o <<"=">> \o r.cookies[n].value).some
           /\ \A n \in DOMAIN r.cookies :
                 \E i \in (3 + nh)..Len(cut.lines) :
                    StripPrefix(cut.lines[i],
                                <<"S", "e", "t", "-", "C", "o", "o", "k", "i", "e", ":", " ">> \o r.cookies[n].name \o <<"=">> \o r.cookies[n].value).some
           /\ cut.rest = r.body
           /\ Len(text) >= Len(tail)
           /\ SubSeq(text, Len(text) - Len(tail) + 1, Len(text)) = tail

\* a Response with two headers, a cookie and a body whose byte length is
\* not its number of characters has been serialized
C19_Witness ==
    /\ wire_text # None
    /\ Cardinality(DOMAIN wire_response.headers) = 2
    /\ Cardinality(DOMAIN wire_response.cookies) = 1
    /\ BytesOf(wire_response.body) # Len(wire_response.body)
    /\ wire_response.status_code = "NotFound"

\* ------------------------------------------------------------------------
\* C20
\* ------------------------------------------------------------------------
\* C20 as stated: for every Response, also one whose header map has a
\* Content-Length key set by a handler, every Content-Length line of the
\* serialized text carries the byte length of the body; a user-set
\* Content-Length value never reaches the wire.
C20_ContentLengthAsStated ==
    wire_text # None =>
        LET cut == CutHead(wire_text.value, <<>>)
        IN \A i \in 1..Len(cut.lines) :
              StripPrefix(cut.lines[i], ContentLengthPrefix).some
                  => cut.lines[i] = ExpectedContentLength(wire_response)

\* ------------------------------------------------------------------------
\* C18
\* ------------------------------------------------------------------------
\* the value a Content-Length line announces, when line i of the input is
\* one and its value is a usize
Announced(input, i) ==
    IF StripPrefix(input.lines[i], ContentLengthPrefix).some
    THEN ParseUsize(Trim(StripPrefix(input.lines[i], ContentLengthPrefix).value))
    ELSE None

\* what the client did wrong, read off the bytes it sent: it sent nothing,
\* its request line has fewer than three tokens, a read failed, a
\* Content-Length line announces no number, or one announces more bytes
\* than the connection carries
FailsToParse(input) ==
    \/ input.lines = <<>>
    \/ Cardinality(TokenStarts(input.lines[1])) < 3
    \/ input.fail_at # 0
    \/ \E i \in 1..Len(input.lines) :
          /\ StripPrefix(input.lines[i], ContentLengthPrefix).some
          /\ ~Announced(input, i).some
    \/ \E i \in 1..Len(input.lines) :
          /\ Announced(input, i).some
          /\ NumeralGreater(Announced(input, i).value, ToDecimal(ByteLength(StreamOf(input))))

\* C18: a connection whose request cannot be read or parsed never ends
\* the process, and when its job ends it has an error, no byte was
\* written to it, no middleware or handler ran, and the worker that
\* served it is back in its loop, neither panicked nor terminated.
\* A body announced with more bytes than can be allocated violates it.
C18_FailureConfinedAsStated ==
    /\ [](\A c \in Connections :
            FailsToParse(connections[c].input) => connections[c].pc # "aborted")
    /\ [][\A j \in 1..MaxConnections :
            (served'[j] # served[j] /\ FailsToParse(served'[j].value.input)) =>
                /\ served'[j].value.result # "Ok"
                /\ served'[j].value.written = <<>>
                /\ served'[j].value.partial = 0
                /\ served'[j].value.calls = <<>>
                /\ worker_state'[served'[j].value.worker] = "locking"]_vars

\* ------------------------------------------------------------------------
\* C21
\* ------------------------------------------------------------------------
\* a step that is a registration call
RegistrationStep == registrations' = registrations + 1

\* C21: a route registration that reaches the router makes its handler the
\* entry of (P, M), and leaves the entry of every other (pattern, method)
\* pair, other methods of P included, as it was: present with the same
\* handler or absent; so the entry of (P, M) is always the handler of the
\* most recent registration of (P, M) that reached the router
C21_RegistrationFrame ==
    /\ []((registered.some /\ registered.value.call = "route"
            /\ registered.value.outcome = "added")
          => RouteEntry(routes, registered.value.path, registered.value.method)
                = Some(registered.value.handler))
    /\ [][(RegistrationStep /\ registered'.value.call = "route"
            /\ registered'.value.outcome = "added")
          => \A p \in (DOMAIN routes) \cup (DOMAIN routes') \cup RegisterPatterns,
                m \in HttpMethods :
                <<p, m>> # <<registered'.value.path, registered'.value.method>>
                   => RouteEntry(routes', p, m) = RouteEntry(routes, p, m)]_vars

\* a registration replaced the handler that (P, M) had by another one
C21_Witness ==
    /\ registered.some
    /\ registered.value.call = "route"
    /\ registered.value.outcome = "added"
    /\ registered.value.replaced.some
    /\ registered.value.replaced.value # registered.value.handler
    /\ routes[registered.value.path][registered.value.method] = registered.value.handler

\* ------------------------------------------------------------------------
\* C22
\* ------------------------------------------------------------------------
\* the router has a second owner: a connection that listen has handed to
\* the pool, and whose job has not returned, holds a clone of the handle
SecondOwner ==
    \/ \E i \in 1..Len(queue) : queue[i].kind = "connection"
    \/ \E w \in Workers : current_job[w].some /\ current_job[w].value.kind = "connection"

\* C22: a registration call made while the router has a second owner
\* returns after logging the error, the route table and the middleware
\* list being what they were; one made while the router has a single
\* owner takes effect: the route is in the table, the middleware is the
\* last of the list
C22_RegistrationNeedsSoleOwner ==
    [][RegistrationStep =>
          IF SecondOwner
          THEN /\ registered'.value.outcome = "logged"
               /\ routes' = routes
               /\ middlewares' = middlewares
          ELSE /\ registered'.value.outcome = "added"
               /\ registered'.value.call = "route" =>
                     /\ RouteEntry(routes', registered'.value.path, registered'.value.method)
                           = Some(registered'.value.handler)
                     /\ middlewares' = middlewares
               /\ registered'.value.call = "middleware" =>
                     /\ middlewares' = Append(middlewares, registered'.value.handler)
                     /\ routes' = routes]_vars

\* after a registration that took effect, a registration was refused while
\* a connection held the router
C22_Witness ==
    /\ SecondOwner
    /\ registered.some
    /\ registered.value.outcome = "logged"
    /\ registrations = 2
    /\ routes # EmptyMap \/ middlewares # <<>>

\* ------------------------------------------------------------------------
\* C23
\* ------------------------------------------------------------------------
\* the tokens that name a method, and the method token of a request line
MethodTokens ==
    { <<"G", "E", "T">>, <<"P", "O", "S", "T">>, <<"P", "A", "T", "C", "H">>,
      <<"D", "E", "L", "E", "T", "E">> }
MethodToken(input) == NthToken(input.lines[1], 1)

\* what the client would have sent with GET as the method token
SentAsGet(input) ==
    LET line == input.lines[1]
        start == CHOOSE i \in TokenStarts(line) : \A k \in TokenStarts(line) : i <= k
        after == start + Len(MethodToken(input))
    IN [input EXCEPT !.lines[1] = SubSeq(line, 1, start - 1) \o <<"G", "E", "T">>
                                      \o SubSeq(line, after, Len(line))]

\* a served connection whose request line has a method token that names
\* no method
UnknownMethodServed(j) ==
    /\ served[j].some
    /\ served[j].value.input.fail_at = 0
    /\ served[j].value.input.lines # <<>>
    /\ Cardinality(TokenStarts(served[j].value.input.lines[1])) >= 3
    /\ MethodToken(served[j].value.input) \notin MethodTokens

\* what handle_request did on a served connection
OutcomeOf(record) ==
    Handled(record.result, record.written, record.partial, record.calls)

\* C23: a request whose method token is none of GET, POST, PATCH, DELETE
\* reaches the middlewares and the handler as a GET request, and its
\* outcome (the closures called, the bytes written: the handler's answer,
\* 404 or 405) is an outcome of the same request sent with GET
C23_UnknownMethodIsGet ==
    [][\A j \in 1..MaxConnections :
          (served'[j] # served[j]
             /\ served'[j].value.input.fail_at = 0
             /\ MethodToken(served'[j].value.input) \notin MethodTokens) =>
            /\ \A i \in 1..Len(served'[j].value.calls) :
                   served'[j].value.calls[i].context.request.method = "GET"
            /\ OutcomeOf(served'[j].value)
                  \in WebServerHandleRequest(routes, middlewares,
                                             StreamOf(SentAsGet(served'[j].value.input)), 0,
                                             served'[j].value.input.memory,
                                             served'[j].value.input.peer_takes)]_vars

\* a request sent with PUT was answered by the GET handler of its path
C23_Witness ==
    \E j \in 1..MaxConnections :
        /\ UnknownMethodServed(j)
        /\ served[j].value.result = "Ok"
        /\ \E i \in 1..Len(served[j].value.calls) :
              /\ served[j].value.calls[i].kind = "handler"
              /\ RouteEntry(routes, <<"/", "a">>, "GET") = Some(served[j].value.calls[i].id)

\* ------------------------------------------------------------------------
\* C24
\* ------------------------------------------------------------------------
\* the answer to the request handled last has status 500
Answered500 == response.some /\ response.value.status_code = "InternalServerError"

\* the handlers written by the user that were called for the request
UserHandlerCalls ==
    {i \in 1..Len(calls) : calls[i].kind = "handler" /\ calls[i].id # "static"}

\* the calls of the closure that serve_static registered
StaticCalls ==
    {i \in 1..Len(calls) : calls[i].kind = "handler" /\ calls[i].id = "static"}

\* C24 as stated: a response with status 500 is one that a handler written
\* by the user constructed, never one of the router or of the static route
C24_No500AsStated == Answered500 => UserHandlerCalls # {}

\* C24: the router itself never answers 500; the closure of the static
\* route answers 500 when the request has no filename capture (its path
\* is the registered pattern verbatim) or when the file exists and cannot
\* be read as text; every other response with status 500 is one that a
\* handler written by the user constructed
C24_No500FromRouter ==
    Answered500 =>
        \/ UserHandlerCalls # {}
        \/ \E i \in StaticCalls :
              \/ FilenameParam \notin DOMAIN calls[i].context.params
              \/ /\ PathExists(calls[i].context.params[FilenameParam])
                 /\ ~ReadToString(calls[i].context.params[FilenameParam]).some

\* the static route answered 500 to a request for a file that exists
C24_Witness ==
    /\ Answered500
    /\ UserHandlerCalls = {}
    /\ \E i \in StaticCalls :
          /\ FilenameParam \in DOMAIN calls[i].context.params
          /\ PathExists(calls[i].context.params[FilenameParam])

\* ------------------------------------------------------------------------
\* C25
\* ------------------------------------------------------------------------
\* the path ends in "/", and the path has a "/?" somewhere
EndsInSlash(path) == Len(path) > 0 /\ path[Len(path)] = "/"
HasSlashQuery(path) == \E i \in 1..(Len(path) - 1) : path[i] = "/" /\ path[i+1] = "?"

\* C25 as stated: the root path "/" comes back as "/"; any other path that
\* ends in "/" comes back without that slash; a non-empty path with no
\* trailing slash and no "/?" comes back unchanged; and in what comes back
\* every "/?" of the path has become "?"
C25_FormatAsStated ==
    path_formatted.some =>
        LET got == path_formatted.value
        IN /\ path_given = <<"/">> => got = FormatOk(<<"/">>)
           /\ (EndsInSlash(path_given) /\ path_given # <<"/">> /\ ~HasSlashQuery(path_given))
                 => got = FormatOk(SubSeq(path_given, 1, Len(path_given) - 1))
           /\ (path_given # <<>> /\ ~EndsInSlash(path_given) /\ ~HasSlashQuery(path_given))
                 => got = FormatOk(path_given)
           /\ (~EndsInSlash(path_given) /\ HasSlashQuery(path_given))
                 => got = FormatOk(ReplaceSlashQuery(path_given))

\* ------------------------------------------------------------------------
\* C26
\* ------------------------------------------------------------------------
\* C26 as stated: given the empty string, format_path_by_slashes returns
\* a PathFormatError and no Ok value
C26_EmptyFailsAsStated ==
    (path_formatted.some /\ path_given = <<>>) =>
        /\ ~path_formatted.value.ok
        /\ path_formatted.value.error = "PathFormatError"

\* ------------------------------------------------------------------------
\* C27
\* ------------------------------------------------------------------------
\* the registered patterns that match the path of the request, those of
\* them that have a handler for its method, and those that have none
MatchingPatterns == {p \in DOMAIN routes : DynMatches(request.value.path, p)}
MatchingWithMethod == {p \in MatchingPatterns : request.value.method \in DOMAIN routes[p]}
MatchingWithoutMethod == MatchingPatterns \ MatchingWithMethod

\* the request went to the dynamic branch, where a pattern matches its
\* path and has no handler for its method
SkippedPattern ==
    /\ request # None
    /\ request.value.path \notin DOMAIN routes
    /\ MatchingWithoutMethod # {}

\* the handler of one of the matching patterns that have the method was
\* called, once, and the answer is its response
DispatchedToMatching ==
    /\ Len(HandlerCalls) = 1
    /\ \E p \in MatchingWithMethod :
          HandlerCalls[1].id = routes[p][request.value.method]
    /\ response = Some(HandlerFunc(HandlerCalls[1].id, HandlerCalls[1].context))

\* C27 as stated: when a pattern matches the path and lacks the method,
\* the scan goes on; if another pattern matches and has a handler for the
\* method that handler is dispatched, otherwise the answer is 404, never
\* 405
C27_SkipAsStated ==
    SkippedPattern =>
        IF MatchingWithMethod # {}
        THEN DispatchedToMatching
        ELSE Answered(404, "Not Found") /\ HandlerCalls = <<>>

\* C27: when a pattern matches the path and lacks the method, the scan
\* goes on; if another pattern matches and has a handler for the method,
\* that handler is dispatched unless the query parsing finds a piece with
\* an empty key, which is answered 400 with no handler called; otherwise
\* the answer is 404; it is never 405
C27_SkipThenDispatchOr400 ==
    SkippedPattern =>
        /\ ~Answered(405, "Method Not Allowed")
        /\ IF MatchingWithMethod # {}
           THEN IF ParseQuery(request.value.path).ok
                THEN DispatchedToMatching
                ELSE Answered(400, "Bad Request") /\ HandlerCalls = <<>>
           ELSE Answered(404, "Not Found") /\ HandlerCalls = <<>>

\* one pattern matched without the method and the handler of another
\* matching pattern was called
C27_Witness ==
    /\ SkippedPattern
    /\ MatchingWithMethod # {}
    /\ Len(HandlerCalls) = 1
    /\ \E p \in MatchingWithMethod : HandlerCalls[1].id = routes[p][request.value.method]

\* ------------------------------------------------------------------------
\* C28
\* ------------------------------------------------------------------------
\* C28 as stated: a request for P?query, P a registered pattern, is an
\* exact match of P: it is dispatched to the handler P has for the method,
\* and answered 405 when P has none
C28_ExactOnStrippedPathAsStated ==
    (/\ request # None
     /\ HasQuery(request.value.path)
     /\ StripQuery(request.value.path) \in DOMAIN routes)
    => IF request.value.method \in DOMAIN routes[StripQuery(request.value.path)]
       THEN /\ Len(HandlerCalls) = 1
            /\ HandlerCalls[1].id
                  = routes[StripQuery(request.value.path)][request.value.method]
       ELSE Answered(405, "Method Not Allowed") /\ HandlerCalls = <<>>

\* ------------------------------------------------------------------------
\* C29
\* ------------------------------------------------------------------------
\* C29: a request whose path is a registered pattern verbatim is answered
\* from that pattern alone: by its handler for the method, called with no
\* captures bound, or by 405 when it has none, also when a dynamic pattern
\* that matches the path has a handler for the method
C29_ExactBeforeDynamic ==
    (request # None /\ request.value.path \in DOMAIN routes)
    => IF request.value.method \in DOMAIN routes[request.value.path]
       THEN /\ Len(HandlerCalls) = 1
            /\ HandlerCalls[1].id = routes[request.value.path][request.value.method]
            /\ HandlerCalls[1].context.params = EmptyMap
       ELSE Answered(405, "Method Not Allowed") /\ HandlerCalls = <<>>

\* 405 from the exact pattern while a dynamic pattern that matches the
\* path has a handler for the method
C29_Witness ==
    /\ request # None
    /\ request.value.path \in DOMAIN routes
    /\ request.value.method \notin DOMAIN routes[request.value.path]
    /\ \E p \in DOMAIN routes :
          /\ p # request.value.path
          /\ DynMatches(request.value.path, p)
          /\ request.value.method \in DOMAIN routes[p]
    /\ Answered(405, "Method Not Allowed")

\* ------------------------------------------------------------------------
\* C30
\* ------------------------------------------------------------------------
\* the pieces of the query text of the request
QueryPieces == Split(QuerySuffix(request.value.path), "&")

\* C30 as stated: each piece of the query is split once on its first "=",
\* the key the text before it and the value all the text after it, a
\* piece without "=" being a key with an empty value; so the handler finds
\* under the key of a piece, the last with that key, the value of that
\* piece
C30_SplitOnceAsStated ==
    (/\ DynamicallyRouted
     /\ HandlerCalls # <<>>
     /\ Cardinality({i \in 1..Len(request.value.path) : request.value.path[i] = "?"}) = 1)
    => \A i \in 1..Len(QueryPieces) :
          (\A j \in (i+1)..Len(QueryPieces) : KeyOf(QueryPieces[j]) # KeyOf(QueryPieces[i]))
          => /\ KeyOf(QueryPieces[i]) \in DOMAIN HandlerCalls[1].context.query_params
             /\ HandlerCalls[1].context.query_params[KeyOf(QueryPieces[i])]
                   = ValueOf(QueryPieces[i])

\* ------------------------------------------------------------------------
\* C31
\* ------------------------------------------------------------------------
\* the worker's thread is in its loop (Running): before lock(), inside
\* recv(), or inside job()
WorkerRunning(w) == worker_state[w] \in {"locking", "receiving", "running"}

\* the number of worker threads that are in their loop
RunningCount == Cardinality({w \in Workers : WorkerRunning(w)})

\* the step in which worker w gets Err from recv(): it holds the lock, the
\* channel is empty and the send side is gone, and its loop breaks
FailedReceiveStep(w) ==
    /\ worker_state[w] = "receiving"
    /\ receiver_lock = w
    /\ queue = <<>>
    /\ ~sender
    /\ worker_state'[w] = "terminated"

\* the step in which the job worker w executes panics and unwinds the
\* worker's thread
JobPanicStep(w) ==
    /\ worker_state[w] = "running"
    /\ current_job[w].value.kind = "panics"
    /\ worker_state'[w] = "panicked"

\* C31 as stated: every worker is either Running or Terminated (its thread
\* has ended); a worker's thread ends only by a failed receive (a failed
\* lock acquisition has no step of its own: the lock is never poisoned);
\* an ended worker never runs again; no worker is created after
\* construction; so the number of Running workers never increases and
\* never exceeds the size chosen at construction
C31_WorkerStatesAsStated ==
    /\ [](\A w \in Workers : WorkerRunning(w) \/ Exited(w))
    /\ [][\A w \in Workers :
            (~Exited(w) /\ worker_state'[w] \in {"terminated", "panicked"})
            => FailedReceiveStep(w)]_vars
    /\ [][\A w \in Workers :
            Exited(w) => worker_state'[w] \in {"terminated", "panicked"}]_vars
    /\ [][DOMAIN worker_state' = DOMAIN worker_state]_vars
    /\ [][RunningCount' <= RunningCount]_vars
    /\ [](RunningCount <= PoolSize)

\* C31 amended: as above, except that a worker's thread ends either by a
\* failed receive or by a panic of the job it executes
C31_WorkerStates ==
    /\ [](\A w \in Workers : WorkerRunning(w) \/ Exited(w))
    /\ [][\A w \in Workers :
            (~Exited(w) /\ worker_state'[w] \in {"terminated", "panicked"})
            => (FailedReceiveStep(w) \/ JobPanicStep(w))]_vars
    /\ [][\A w \in Workers :
            Exited(w) => worker_state'[w] \in {"terminated", "panicked"}]_vars
    /\ [][DOMAIN worker_state' = DOMAIN worker_state]_vars
    /\ [][RunningCount' <= RunningCount]_vars
    /\ [](RunningCount <= PoolSize)

\* one worker has ended by a failed receive and another by a panic of its
\* job, and no worker runs any more
C31_Witness ==
    /\ \E w \in Workers : worker_state[w] = "terminated"
    /\ \E w \in Workers : worker_state[w] = "panicked" /\ runs # [j \in 1..MaxJobs |-> <<>>]
    /\ RunningCount = 0

\* ------------------------------------------------------------------------
\* C32
\* ------------------------------------------------------------------------
\* how often worker w occurs in a sequence of workers
CountIn(seq, w) == Cardinality({i \in 1..Len(seq) : seq[i] = w})

\* the jobs worker w has dequeued and whose call has not ended yet
ExecutingOn(w) ==
    {j \in 1..MaxJobs : CountIn(takes[j], w) > CountIn(runs[j], w)}

\* the jobs in execution: dequeued by some worker, call not ended yet
InExecution == {j \in 1..MaxJobs : Len(takes[j]) > Len(runs[j])}

\* the step in which worker w dequeues a job
DequeueStep(w) ==
    \E j \in 1..MaxJobs : takes'[j] = Append(takes[j], w)

\* C32: a worker executes at most one job at a time, the job it holds; it
\* dequeues a job only when the call of every job it dequeued before has
\* ended; so the jobs in execution are never more than the pool has
\* workers
C32_OneJobPerWorker ==
    /\ [](\A w \in Workers :
            /\ Cardinality(ExecutingOn(w)) <= 1
            /\ ExecutingOn(w) # {}
               => /\ worker_state[w] = "running"
                  /\ current_job[w] # None
                  /\ ExecutingOn(w) = {current_job[w].value.id})
    /\ [][\A w \in Workers : DequeueStep(w) => ExecutingOn(w) = {}]_vars
    /\ [](Cardinality(InExecution) <= PoolSize)

\* every worker executes a job, one of them its second after its first
\* has returned
C32_Witness ==
    /\ Cardinality(InExecution) = PoolSize
    /\ \A w \in Workers : worker_state[w] = "running"
    /\ \E w \in Workers : \E j \in finished :
          CountIn(runs[j], w) = 1 /\ ExecutingOn(w) # {}

\* ------------------------------------------------------------------------
\* C33
\* ------------------------------------------------------------------------
\* the indices at which an operation occurs among those done on a
\* connection
EventsAt(c, op) ==
    {i \in 1..Len(connections[c].events) : connections[c].events[i] = op}

\* the operations of a call of handle_request that meets no error
FullRun == <<"read", "parse", "route", "write", "flush", "close">>

\* the client has put a second request behind the first
Pipelined(c) ==
    \E i \in 1..Len(connections[c].input.lines) :
       /\ connections[c].input.lines[i] = <<>>
       /\ i < Len(connections[c].input.lines)

\* the positions of request_vector that hold a body: the element behind
\* the empty line
BodiesRead(c) ==
    {i \in 2..Len(connections[c].vector) : connections[c].vector[i - 1] = <<>>}

\* C33: on every accepted connection the request is read and parsed at
\* most once and a response is written at most once; the write comes
\* after a parse that succeeded and after the router has returned, and
\* what is written is the router's serialized answer; the flush follows
\* the write; then the connection is closed, and nothing is read from,
\* parsed on or written to a closed connection, so that nothing behind
\* the first empty line is ever read but the body the request announced,
\* with as many bytes as announced
C33_OneRequestPerConnection ==
    /\ [](\A c \in Connections :
            /\ Cardinality(EventsAt(c, "read")) <= 1
            /\ Cardinality(EventsAt(c, "parse")) <= 1
            /\ Cardinality(EventsAt(c, "write")) <= 1
            /\ \A i \in EventsAt(c, "write") :
                  /\ connections[c].request # None
                  /\ \E j \in EventsAt(c, "parse") : \E k \in EventsAt(c, "route") :
                        j < k /\ k < i
            /\ \A i \in EventsAt(c, "flush") :
                  /\ i - 1 \in EventsAt(c, "write")
                  /\ connections[c].written = connections[c].answer
            /\ (connections[c].written # <<>> \/ connections[c].partial # 0)
               => EventsAt(c, "write") # {}
            /\ \A i \in 1..Len(connections[c].vector) :
                  connections[c].vector[i] = <<>>
                  => /\ i = BlankLineAt(connections[c].input.lines)
                     /\ i >= Len(connections[c].vector) - 1
            /\ \A i \in BodiesRead(c) :
                  /\ \E k \in 1..(i - 2) :
                        /\ Announced(connections[c].input, k).some
                        /\ Announced(connections[c].input, k).value
                              = ToDecimal(ByteLength(connections[c].vector[i]))
                  /\ \E k \in 0..Len(AfterBlankLine(connections[c].input)) :
                        connections[c].vector[i]
                           = SubSeq(AfterBlankLine(connections[c].input), 1, k)
            /\ connections[c].pc = "closed"
               => /\ ~connections[c].open
                  /\ EventsAt(c, "close") = {Len(connections[c].events)}
                  /\ (EventsAt(c, "write") # {} /\ connections[c].result # "IO")
                     => connections[c].events = FullRun)
    /\ [][\A c \in Connections :
            connections[c].pc = "closed" => connections'[c] = connections[c]]_vars
    /\ [][\A c \in Connections :
            (\/ connections'[c].written # connections[c].written
             \/ connections'[c].partial # connections[c].partial)
            => /\ connections[c].pc = "writing"
               /\ connections[c].request # None
               /\ connections[c].written = <<>>
               /\ connections[c].partial = 0]_vars

\* a connection on which the client sent two requests is closed after the
\* answer to the first was written and flushed, and another connection
\* was closed with nothing written because its request did not parse
C33_Witness ==
    /\ \E c \in Connections :
          /\ Pipelined(c)
          /\ connections[c].pc = "closed"
          /\ connections[c].events = FullRun
          /\ connections[c].result = "Ok"
          /\ connections[c].written # <<>>
          /\ connections[c].request.value.method = "GET"
    /\ \E c \in Connections :
          /\ connections[c].pc = "closed"
          /\ connections[c].events = <<"read", "parse", "close">>
          /\ connections[c].written = <<>>

\* ------------------------------------------------------------------------
\* C34
\* ------------------------------------------------------------------------
\* the indices of the header lines of a vector of lines: those after the
\* request line and before the first blank line (a line with nothing but
\* whitespace on it)
HeaderBlock(lines) ==
    {i \in 2..Len(lines) : \A k \in 2..i : \E n \in 1..Len(lines[k]) :
                                               lines[k][n] \notin Whitespace}

\* the position of the first ":" of a line, 0 when it has none
FirstColon(line) ==
    IF \E n \in 1..Len(line) : line[n] = ":"
    THEN CHOOSE n \in 1..Len(line) :
            line[n] = ":" /\ \A m \in 1..(n - 1) : line[m] # ":"
    ELSE 0

\* the header lines that have a ":"
ColonLines(lines) == {i \in HeaderBlock(lines) : FirstColon(lines[i]) # 0}

\* the name and the value such a line gives
NameOfLine(line) == Trim(SubSeq(line, 1, FirstColon(line) - 1))
ValueOfLine(line) == Trim(SubSeq(line, FirstColon(line) + 1, Len(line)))

\* C34: Request::new succeeds whatever the lines after a request line of
\* three tokens are, and the header map it builds has exactly the names
\* that the header lines with a ":" give (the trimmed text before the
\* first ":"), each with the trimmed text after the first ":" of the last
\* header line that gives this name; a header line without ":" adds
\* nothing
C34_HeaderMap ==
    direct # None =>
        LET lines == conn_input.lines
            result == direct.value
        IN (Len(lines) > 0 /\ Cardinality(TokenStarts(lines[1])) >= 3) =>
              /\ result.ok
              /\ DOMAIN result.request.headers
                    = {NameOfLine(lines[i]) : i \in ColonLines(lines)}
              /\ \A i \in ColonLines(lines) :
                    (\A j \in ColonLines(lines) :
                        NameOfLine(lines[j]) = NameOfLine(lines[i]) => j <= i)
                    => result.request.headers[NameOfLine(lines[i])] = ValueOfLine(lines[i])

\* a name given twice with different values and a line without ":" between
\* them: the map holds the later value
C34_Witness ==
    /\ direct # None
    /\ direct.value.ok
    /\ \E i, j, k \in HeaderBlock(conn_input.lines) :
          /\ i < k /\ k < j
          /\ FirstColon(conn_input.lines[k]) = 0
          /\ i \in ColonLines(conn_input.lines)
          /\ j \in ColonLines(conn_input.lines)
          /\ NameOfLine(conn_input.lines[i]) = NameOfLine(conn_input.lines[j])
          /\ ValueOfLine(conn_input.lines[i]) # ValueOfLine(conn_input.lines[j])
          /\ direct.value.request.headers[NameOfLine(conn_input.lines[j])]
                = ValueOfLine(conn_input.lines[j])

\* ------------------------------------------------------------------------
\* C35
\* ------------------------------------------------------------------------
\* the step in which the router handles a request
HandlingStep == request = None /\ request' # None

\* what the router can answer to a request with a route table and a
\* middleware list, whatever was handled before: the Response and the
\* closure calls, for every iteration order of the table
AnswersOfRouter(rts, mws, req) ==
    { LET chain == ApplyMiddlewares(mws, 1, ContextNew(req), <<>>)
          res == RouterHandleRequest(rts, order, chain.context)
      IN [response |-> res.response, calls |-> chain.calls \o res.calls] :
      order \in Orders(DOMAIN rts) }

\* C35: the step that handles a request, whatever its outcome, leaves the
\* route table and the middleware list as they were, and so does the end
\* of the request; hence the answer to a request, however many requests
\* were handled before it, is one that the table and the list as
\* registered give to that request
C35_HandlingFrame ==
    /\ [][HandlingStep => (routes' = routes /\ middlewares' = middlewares)]_vars
    /\ [][serving => (routes' = routes /\ middlewares' = middlewares)]_vars
    /\ [](request # None
          => [response |-> response.value, calls |-> calls]
                \in AnswersOfRouter(routes, middlewares, request.value))

\* after as many requests as the exploration counts were answered, a
\* further request reaches a handler behind the registered middleware
C35_Witness ==
    /\ handled = MaxRequests
    /\ request # None
    /\ Len(HandlerCalls) = 1
    /\ Len(MiddlewareCalls) = 1
    /\ Len(middlewares) = 1
    /\ Cardinality(DOMAIN routes) = 1

\* ------------------------------------------------------------------------
\* C36
\* ------------------------------------------------------------------------
\* worker w is in its loop and executes no job: it waits for the lock or,
\* holding it, for a job
Available(w) == worker_state[w] \in {"locking", "receiving"}

\* C36: the lock of the receive end is held only by a worker inside
\* recv(), and the step that hands a job to a worker leaves the lock
\* free, so that no worker holds it while it executes a job or after its
\* thread has ended; whenever a job is queued and some worker executes
\* none, such a worker can take the lock or the job, whatever the other
\* workers execute
C36_LockReleasedBeforeJob ==
    /\ [](\A w \in Workers : receiver_lock = w => worker_state[w] = "receiving")
    /\ [][\A w \in Workers :
            (worker_state[w] # "running" /\ worker_state'[w] = "running")
            => (receiver_lock = w /\ receiver_lock' = 0)]_vars
    /\ []((queue # <<>> /\ \E w \in Workers : Available(w))
          => \E w \in Workers : ENABLED Lock(w) \/ ENABLED Receive(w))

\* one worker executes a job that never returns; the other worker took
\* and finished a job after that and now executes a further one
C36_Witness ==
    \E v, w \in Workers :
       /\ v # w
       /\ worker_state[v] = "running"
       /\ current_job[v].value.kind = "blocks"
       /\ worker_state[w] = "running"
       /\ current_job[w].value.id > current_job[v].value.id
       /\ \E j \in finished : j > current_job[v].value.id /\ runs[j] = <<w>>
       /\ receiver_lock = 0

\* ------------------------------------------------------------------------
\* C37
\* ------------------------------------------------------------------------
\* job j waits in the channel
InQueue(j) == \E i \in 1..Len(queue) : queue[i].id = j

\* a worker has called job j and the call has ended
Executed(j) == runs[j] # <<>>

\* C37: under fair scheduling of the worker threads, every job that
\* execute put into the channel, which it does only while the send side
\* is open, is eventually dequeued and executed, as long as every job
\* terminates and some worker thread stays in its loop (not every worker
\* is lost to a panicking job), also when the pool is dropped meanwhile:
\* such a job is in the channel or dequeued, and again and again the
\* channel is empty with every dequeued job executed
C37_QueuedJobsRun ==
    /\ [](\A j \in sent : InQueue(j) \/ j \in dequeued \/ RunningCount = 0)
    /\ []<>(\/ ~EveryJobTerminates
            \/ RunningCount = 0
            \/ (queue = <<>> /\ \A j \in dequeued : Executed(j)))

\* every job submitted has been executed, the last ones by the one worker
\* that is left after the other was lost to a panicking job
C37_Witness ==
    /\ submitted = MaxJobs
    /\ sent = 1..MaxJobs
    /\ \A j \in 1..MaxJobs : Executed(j)
    /\ \E w \in Workers : worker_state[w] = "panicked"
    /\ RunningCount = PoolSize - 1
    /\ MaxJobs \in finished

\* ------------------------------------------------------------------------
\* C38
\* ------------------------------------------------------------------------
\* the handler calls of connection c: the one whose Context is built and
\* about to be moved into the handler, and those made
HandlerCallsOf(c) ==
    (IF connections[c].pending.some THEN {connections[c].pending.value} ELSE {})
    \cup {connections[c].calls[i] : i \in {k \in 1..Len(connections[c].calls) :
                                             connections[c].calls[k].kind = "handler"}}

\* the text occurs in the path as a contiguous piece
IsPieceOf(text, path) ==
    \E i \in 1..(Len(path) + 1) : \E j \in (i - 1)..Len(path) : SubSeq(path, i, j) = text

\* what the router does with a request handled alone: the answer and the
\* closure calls, for every iteration order of the table
AloneResults(req) ==
    { RouterHandleRequest(routes, order,
                          ApplyMiddlewares(middlewares, 1, ContextNew(req), <<>>).context) :
      order \in Orders(DOMAIN routes) }

\* what the client of a connection asked for, read off the bytes it sent:
\* the path token of its request line, the segment after the first "/"
\* and the value after the "=" of the query
OwnPath(c) == NthToken(connections[c].input.lines[1], 2)
OwnCapture(c) == SubSeq(StripQuery(OwnPath(c)), 2, Len(StripQuery(OwnPath(c))))
OwnQueryValue(c) ==
    SubSeq(QuerySuffix(OwnPath(c)), IndexOf(QuerySuffix(OwnPath(c)), "=") + 1,
           Len(QuerySuffix(OwnPath(c))))

\* the header lines of an answer named X-Echo
EchoLines(text) ==
    {CutHead(text, <<>>).lines[i] : i \in {k \in 1..Len(CutHead(text, <<>>).lines) :
        StripPrefix(CutHead(text, <<>>).lines[k], <<"X", "-", "E", "c", "h", "o", ":">>).some}}

\* C38: whatever the other connections do at the same time, the Context
\* a handler is given for a connection is built from that connection's
\* request alone: it holds that request, its path parameters are the
\* segment of the path the client of this connection sent and its query
\* map the query value that client sent, its in-progress response holds
\* nothing but what the middlewares put there, and the whole Context is
\* the one the router builds when the request is handled alone; and the
\* text written back, by a handler that echoes its parameters, echoes
\* those of this connection's client and is a serialized form of the
\* answer given to the request handled alone
C38_ContextIsolation ==
    \A c \in Connections :
       /\ \A call \in HandlerCallsOf(c) :
             /\ call.context.request = connections[c].request.value
             /\ call.context.request.path = OwnPath(c)
             /\ call.context.params = [k \in {<<"x">>} |-> OwnCapture(c)]
             /\ call.context.query_params = [k \in {<<"a">>} |-> OwnQueryValue(c)]
             /\ call.context.response.body = ""
             /\ call.context.response.cookies = EmptyMap
             /\ DOMAIN call.context.response.headers \subseteq {"X-Trace"}
             /\ \E alone \in AloneResults(connections[c].request.value) :
                   alone.calls = <<call>>
       /\ connections[c].answer # <<>>
          => /\ EchoLines(connections[c].answer)
                   = { <<"X", "-", "E", "c", "h", "o", ":", " ">>
                         \o OwnCapture(c) \o OwnQueryValue(c) }
             /\ \E alone \in AloneResults(connections[c].request.value) :
                   connections[c].answer \in SerializedForms(alone.response)

\* two connections with different requests are in their handlers at the
\* same time: the Context of one is built while the other has been given
\* its own, each with the captured segment of its own path
C38_Witness ==
    \E c, d \in Connections :
       /\ c # d
       /\ connections[c].pending.some
       /\ connections[d].pc = "writing"
       /\ \E call \in HandlerCallsOf(d) :
             /\ call.context.params # connections[c].pending.value.context.params
             /\ call.context.query_params
                   # connections[c].pending.value.context.query_params
             /\ DOMAIN call.context.params = {<<"x">>}

\* ------------------------------------------------------------------------
\* C39
\* ------------------------------------------------------------------------
\* C39: when at most one registered pattern both matches the path of the
\* request and has a handler for its method, every iteration order of the
\* route table gives the request the same outcome: the same handler
\* called with the same Context (path parameters and query map), or the
\* same answer 400, 404 or 405 of the router
C39_DeterministicRouting ==
    (request # None /\ Cardinality(MatchingWithMethod) <= 1)
    => /\ Cardinality(AnswersOfRouter(routes, middlewares, request.value)) = 1
       /\ AnswersOfRouter(routes, middlewares, request.value)
             = {[response |-> response.value, calls |-> calls]}

\* two registered patterns match the path of the request, one of them has
\* a handler for its method, and that handler was called with the capture
\* bound, whichever pattern the table yields first
C39_Witness ==
    /\ request # None
    /\ request.value.path \notin DOMAIN routes
    /\ Cardinality(MatchingPatterns) = 2
    /\ Cardinality(MatchingWithMethod) = 1
    /\ Len(HandlerCalls) = 1
    /\ HandlerCalls[1].context.params # EmptyMap
    /\ HandlerCalls[1].context.query_params # EmptyMap
====
